---- MODULE Spec2Model ----
(***************************************************************************)
(* The lens distortion tools of the camera-tracking pipeline:              *)
(*   undistortionNerfstudioColmap.py  (undistort_process)                  *)
(*   restore_distortion.py            (main)                               *)
(*   build_houdini_scene.py           (the frame sort of its loader)       *)
(* A run of a tool is a sequence of steps over a file system, the parsed   *)
(* calibration document (a heap of dicts and lists, so that copies and     *)
(* aliases are distinguishable) and the tool's local variables.            *)
(***************************************************************************)
EXTENDS Integers, Sequences, FiniteSets, TLC

(* ------------------------------------------------------------------ *)
(* Bounds of the model                                                *)
(* ------------------------------------------------------------------ *)
MaxFrames == 2
MaxRuns == 2

(* ------------------------------------------------------------------ *)
(* Characters and file names.  A name is the sequence of the ASCII    *)
(* codes of its characters ("f2.jpg" is <<102, 50, 46, 106, 112,      *)
(* 103>>), so that digits, extensions and the order of names are      *)
(* computed as Python computes them on the strings.                   *)
(* ------------------------------------------------------------------ *)
IsDigit(c) == c \in 48..57

(* str.lower() *)
Lower(s) == [i \in 1..Len(s) |-> IF s[i] \in 65..90 THEN s[i] + 32 ELSE s[i]]

(* str.endswith(suffix) and str.endswith(tuple of suffixes) *)
EndsWith(s, suf) ==
    /\ Len(s) >= Len(suf)
    /\ SubSeq(s, Len(s) - Len(suf) + 1, Len(s)) = suf

EndsWithAny(s, sufs) == \E suf \in sufs : EndsWith(s, suf)

ExtJpg  == <<46, 106, 112, 103>>
ExtJpeg == <<46, 106, 112, 101, 103>>
ExtPng  == <<46, 112, 110, 103>>
ExtTif  == <<46, 116, 105, 102>>
ExtTiff == <<46, 116, 105, 102, 102>>
ExtBmp  == <<46, 98, 109, 112>>
ExtExr  == <<46, 101, 120, 114>>

ImageExts == {ExtJpg, ExtJpeg, ExtPng, ExtTif, ExtTiff, ExtBmp}
ExrExts   == {ExtExr}

(* the file names of the model: "f10.jpg", "f2.jpg", "g1.exr", "n.txt", "h3.png" *)
NameF10 == <<102, 49, 48, 46, 106, 112, 103>>
NameF2  == <<102, 50, 46, 106, 112, 103>>
NameG1  == <<103, 49, 46, 101, 120, 114>>
NameTxt == <<110, 46, 116, 120, 116>>
NameH3  == <<104, 51, 46, 112, 110, 103>>

(* directories "images", "other", "nodir", "out", "images_undistorted" *)
(* and the files "t.json", "transforms_undistorted.json"               *)
DImages  == <<105, 109, 97, 103, 101, 115>>
DOther   == <<111, 116, 104, 101, 114>>
DNoDir   == <<110, 111, 100, 105, 114>>
DOut     == <<111, 117, 116>>
DUndist  == <<105, 109, 97, 103, 101, 115, 95, 117, 110, 100, 105, 115, 116, 111, 114, 116, 101, 100>>
NJson    == <<116, 46, 106, 115, 111, 110>>
NOutJson == <<116, 114, 97, 110, 115, 102, 111, 114, 109, 115, 95, 117, 110, 100, 105, 115, 116, 111, 114, 116, 101, 100, 46, 106, 115, 111, 110>>

(* A path is a sequence of names; the root directory is <<>>. *)
Join(dir, rel) == dir \o rel
BaseName(p) == p[Len(p)]
Parent(p) == SubSeq(p, 1, Len(p) - 1)

JsonPath == <<NJson>>
OutDir   == <<DOut>>

(* ------------------------------------------------------------------ *)
(* File system: the set of directories and the content of each file.  *)
(* ------------------------------------------------------------------ *)
Garbage == [kind |-> "garbage", dtype |-> "", pix |-> 0, ops |-> <<>>]
NoImage == [kind |-> "none", dtype |-> "", pix |-> 0, ops |-> <<>>]
Image(dtype, pix) == [kind |-> "img", dtype |-> dtype, pix |-> pix, ops |-> <<>>]

PathExists(f, p) ==
    p \in f.dirs \/ p \in DOMAIN f.files \/ p \in DOMAIN f.docs

RECURSIVE Prefixes(_)
Prefixes(p) == IF p = <<>> THEN {<<>>} ELSE {p} \cup Prefixes(Parent(p))

(* Path.mkdir(parents=True, exist_ok=True): no error when it exists *)
MkdirExistOk(f, p) == [f EXCEPT !.dirs = @ \cup Prefixes(p)]

(* cv2.imwrite: creates the file or overwrites it *)
ImWrite(f, p, img) ==
    [f EXCEPT !.files = [q \in DOMAIN @ \cup {p} |-> IF q = p THEN img ELSE @[q]]]

(* WriteDoc with the file opened in mode 'a': what is dumped is added   *)
(* after what the file holds                                            *)
WriteDoc_Append(f, p, doc) ==
    LET new == IF p \in DOMAIN f.docs
               THEN [doc EXCEPT !.frames = f.docs[p].frames \o doc.frames]
               ELSE doc
    IN [f EXCEPT !.docs = [q \in DOMAIN @ \cup {p} |-> IF q = p THEN new ELSE @[q]]]

(* open(path, 'w') and json.dump: creates the file or overwrites it *)
WriteDoc(f, p, doc) ==
    [f EXCEPT !.docs = [q \in DOMAIN @ \cup {p} |-> IF q = p THEN doc ELSE @[q]]]

(* os.listdir: the names of the entries directly under dir *)
ListDir(f, dir) ==
    {BaseName(p) : p \in {q \in (DOMAIN f.files \cup DOMAIN f.docs \cup f.dirs) :
                             q # <<>> /\ Parent(q) = dir}}

(* ------------------------------------------------------------------ *)
(* The calibration document as it is stored in a file: its scalar     *)
(* fields and its frames list (hasFrames: the key "frames" is there). *)
(* ------------------------------------------------------------------ *)
DistKeys == {"k1", "k2", "k3", "k4", "p1", "p2"}

FullFields(kv, fish) ==
    [w |-> 640, h |-> 480, fl_x |-> 500, fl_y |-> 510, cx |-> 330, cy |-> 250,
     k1 |-> kv, k2 |-> kv, k3 |-> kv, k4 |-> kv, p1 |-> kv, p2 |-> kv,
     is_fisheye |-> fish, aabb_scale |-> 16]

FrameVal(path, m) == [file_path |-> path, transform_matrix |-> m]

MakeDoc(kv, fish, missing, frs) ==
    [fields |-> [k \in (DOMAIN FullFields(kv, fish)) \ missing |->
                    FullFields(kv, fish)[k]],
     hasFrames |-> "frames" \notin missing,
     frames |-> IF "frames" \in missing THEN <<>> ELSE frs]

(* ------------------------------------------------------------------ *)
(* The heap of a run: json.load builds a dict for the document, a     *)
(* list for "frames", a dict for every frame and a nested list for    *)
(* every transform_matrix.  A value is a number, a reference to a     *)
(* heap object or a path string.                                      *)
(* ------------------------------------------------------------------ *)
VNum(n)  == [k |-> "num", n |-> n, r |-> 0, p |-> <<>>]
VRef(o)  == [k |-> "ref", n |-> 0, r |-> o, p |-> <<>>]
VPath(p) == [k |-> "str", n |-> 0, r |-> 0, p |-> p]

EmptyHeap == [dicts |-> <<>>, lists |-> <<>>, next |-> 1]

FrameOid(i) == 2 * i + 1
MatOid(i)   == 2 * i + 2

(* json.load: the root dict is object 1, the frames list object 2 *)
JsonLoad(doc) ==
    LET n == Len(doc.frames)
        root == [k \in DOMAIN doc.fields \cup
                        (IF doc.hasFrames THEN {"frames"} ELSE {}) |->
                    IF k = "frames" THEN VRef(2) ELSE VNum(doc.fields[k])]
        fdict(i) == [file_path |-> VPath(doc.frames[i].file_path),
                     transform_matrix |-> VRef(MatOid(i))]
    IN [dicts |-> [o \in {1} \cup {FrameOid(i) : i \in 1..n} |->
                      IF o = 1 THEN root ELSE fdict((o - 1) \div 2)],
        lists |-> [o \in (IF doc.hasFrames THEN {2} ELSE {}) \cup
                         {MatOid(i) : i \in 1..n} |->
                      IF o = 2 THEN [i \in 1..n |-> VRef(FrameOid(i))]
                      ELSE <<VNum(doc.frames[(o - 2) \div 2].transform_matrix)>>],
        next |-> 2 * n + 3]

(* json.dump of the dict o: what is written to the file *)
JsonDump(hp, o) ==
    LET d == hp.dicts[o]
        fr == IF "frames" \in DOMAIN d THEN hp.lists[d["frames"].r] ELSE <<>>
        fval(v) == LET fd == hp.dicts[v.r]
                   IN FrameVal(fd["file_path"].p,
                               hp.lists[fd["transform_matrix"].r][1].n)
    IN [fields |-> [k \in {x \in DOMAIN d : d[x].k = "num"} |-> d[k].n],
        hasFrames |-> "frames" \in DOMAIN d,
        frames |-> [i \in 1..Len(fr) |-> fval(fr[i])]]

(* dict.get(key, default) *)
DictGet(d, key, default) == IF key \in DOMAIN d THEN d[key] ELSE default

(* dict.copy(): a new dict object holding the same values (a reference *)
(* is copied as a reference, the nested object is shared)              *)
DictCopy(hp, o) ==
    [hp EXCEPT !.dicts = [x \in DOMAIN @ \cup {hp.next} |->
                             IF x = hp.next THEN hp.dicts[o] ELSE @[x]],
               !.next = @ + 1]

(* d[key] = v *)
DictSet(hp, o, key, v) ==
    [hp EXCEPT !.dicts[o] = [x \in DOMAIN @ \cup {key} |->
                                IF x = key THEN v ELSE @[x]]]

(* a new empty list object *)
ListNew(hp) ==
    [hp EXCEPT !.lists = [x \in DOMAIN @ \cup {hp.next} |->
                             IF x = hp.next THEN <<>> ELSE @[x]],
               !.next = @ + 1]

(* l.append(v) *)
ListAppend(hp, o, v) == [hp EXCEPT !.lists[o] = Append(@, v)]

(* every object reachable from the dict o (the document shape has     *)
(* three levels: document, frames list, frame, matrix)                *)
RefsOfDict(hp, o) == {hp.dicts[o][k].r : k \in {x \in DOMAIN hp.dicts[o] :
                                                  hp.dicts[o][x].k = "ref"}}
RefsOfList(hp, o) == {hp.lists[o][i].r : i \in {j \in 1..Len(hp.lists[o]) :
                                                  hp.lists[o][j].k = "ref"}}
RefsOf(hp, o) == IF o \in DOMAIN hp.dicts THEN RefsOfDict(hp, o)
                 ELSE IF o \in DOMAIN hp.lists THEN RefsOfList(hp, o) ELSE {}

RECURSIVE ReachN(_, _, _)
ReachN(hp, S, n) ==
    IF n = 0 THEN S
    ELSE ReachN(hp, S \cup UNION {RefsOf(hp, o) : o \in S}, n - 1)

Reachable(hp, o) == ReachN(hp, {o}, 4)

(* ------------------------------------------------------------------ *)
(* The OpenCV calls.  A camera matrix is its four entries, a remap    *)
(* table is named by what it was computed from, an image by the       *)
(* pixels it was decoded from and the operations applied to them.     *)
(* ------------------------------------------------------------------ *)
CameraMatrix(fx, fy, cx, cy) == [fx |-> fx, fy |-> fy, cx |-> cx, cy |-> cy]

(* OpenCV order k1, k2, p1, p2, k3, k4, 0, 0 *)
DistVector(k1, k2, k3, k4, p1, p2) == <<k1, k2, p1, p2, k3, k4, 0, 0>>

NoMatrix == CameraMatrix(0, 0, 0, 0)
NoRoi    == <<0, 0, 0, 0>>
NoTable  == [dir |-> "none", model |-> "none", K |-> NoMatrix, D |-> <<>>,
             newK |-> NoMatrix]

Table(dir, model, K, D, newK) ==
    [dir |-> dir, model |-> model, K |-> K, D |-> D, newK |-> newK]

(* cv2.imread(path, flags): None for a file that does not decode; with   *)
(* IMREAD_COLOR the result is always 8-bit, with IMREAD_UNCHANGED the     *)
(* file's own depth                                                       *)
ImRead(f, p, flags) ==
    IF p \notin DOMAIN f.files \/ f.files[p].kind # "img" THEN NoImage
    ELSE IF flags = "IMREAD_COLOR" THEN [f.files[p] EXCEPT !.dtype = "u8"]
    ELSE f.files[p]

ImgOp(op, tbl, roi) == [op |-> op, tbl |-> tbl, roi |-> roi]

(* cv2.remap(img, map1, map2, ...) *)
Remap(img, tbl) == [img EXCEPT !.ops = Append(@, ImgOp("remap", tbl, NoRoi))]

(* cv2.undistort(img, K, D, None, new_K): OpenCV builds the rectify map  *)
(* of (K, D, new_K) inside the call and remaps the image with it         *)
Undistort(img, K, D, newK) == Remap(img, Table("rectify", "perspective", K, D, newK))

(* dst[y:y+h_roi, x:x+w_roi] *)
Crop(img, roi) == [img EXCEPT !.ops = Append(@, ImgOp("crop", NoTable, roi))]

(* ------------------------------------------------------------------ *)
(* State                                                              *)
(* ------------------------------------------------------------------ *)
VARIABLES
    tool,         \* which script runs: "undistort" or "restore"
    args,         \* the parsed command line
    lens,         \* what OpenCV computes for the camera of the document
    fs,           \* the file system
    pc,           \* position of the run
    exitCode,     \* exit status of the process once pc = "done"
    log,          \* the lines printed so far
    heap,         \* the objects of the run
    loc,          \* the local variables of the run
    tableBuilds,  \* how many remap tables this run computed so far
    warped,       \* how many images this run warped so far
    run,          \* 1 for the first run, 2 for a re-run of the same command
    prev          \* the file system and exit status the previous run ended with

vars == <<tool, args, lens, fs, pc, exitCode, log, heap, loc, tableBuilds, warped, run, prev>>

(* cv2.getOptimalNewCameraMatrix(K, D, (w, h), alpha, (w, h)): the new   *)
(* matrix and the valid region, a rectangle inside the frame.  It is a   *)
(* function of its arguments: without distortion the frame itself, with  *)
(* distortion the frame or a smaller rectangle, as lens says.            *)
GetOptimalNewCameraMatrix(K, D, w, h, alpha) ==
    LET full  == [newK |-> K, roi |-> <<0, 0, w, h>>]
        inner == [newK |-> CameraMatrix(K.fx - 20 * (1 - alpha), K.fy - 20 * (1 - alpha),
                                        K.cx - 1, K.cy - 1),
                  roi |-> <<1, 1, w - 2, h - 2>>]
    IN IF (\A i \in 1..Len(D) : D[i] = 0) \/ lens = "full" THEN full ELSE inner

Msg(t, p, n) == [t |-> t, p |-> p, n |-> n]

NoDir == [given |-> FALSE, dir |-> <<>>]
Dir(d) == [given |-> TRUE, dir |-> d]

InitLoc ==
    [w |-> 0, h |-> 0, K |-> NoMatrix, D |-> <<>>, newK |-> NoMatrix, roi |-> NoRoi,
     data |-> 0, new_data |-> 0, new_frames |-> 0, frames |-> 0,
     map |-> NoTable, base_dir |-> <<>>, read_flags |-> "IMREAD_COLOR",
     scan |-> FALSE, files |-> <<>>, idx |-> 0]

EmptyFs == [dirs |-> {<<>>}, files |-> <<>>, docs |-> <<>>]

(* ------------------------------------------------------------------ *)
(* The inputs of a run: the command line, the calibration document    *)
(* and the image files.                                               *)
(* ------------------------------------------------------------------ *)
FramePaths == {<<DImages, NameF10>>, <<DImages, NameF2>>, <<DOther, NameF2>>}

FrameLists == UNION {[1..n -> FramePaths] : n \in 0..MaxFrames}

FrameRecords(fl) == [i \in 1..Len(fl) |-> FrameVal(fl[i], i)]

Statuses == {"ok", "absent", "garbage"}

DocKeys == {"w", "h", "fl_x", "fl_y", "cx", "cy", "k1", "k2", "k3", "k4", "p1", "p2",
            "frames"}

MissingChoices == {{}} \cup {{k} : k \in DocKeys}

(* the pixels of the image stored at a path of FramePaths *)
PixOf(p) == IF p = <<DImages, NameF10>> THEN 10
            ELSE IF p = <<DImages, NameF2>> THEN 2 ELSE 3

InputFs(jsonThere, doc, st) ==
    [dirs  |-> {<<>>, <<DImages>>, <<DOther>>},
     files |-> [p \in {q \in FramePaths : st[q] # "absent"}
                      \cup {<<DImages, NameG1>>, <<DImages, NameTxt>>,
                            <<DImages, NameH3>>} |->
                  IF p = <<DImages, NameG1>> THEN Image("f32", 1)
                  ELSE IF p = <<DImages, NameTxt>> THEN Garbage
                  ELSE IF p = <<DImages, NameH3>> THEN Image("u16", 4)
                  ELSE IF st[p] = "ok" THEN Image("u8", PixOf(p)) ELSE Garbage],
     docs  |-> IF jsonThere THEN [p \in {JsonPath} |-> doc] ELSE <<>>]

UndistortArgs == {[crop |-> c, undistort |-> FALSE, exr |-> FALSE, image_dir |-> NoDir] :
                     c \in BOOLEAN}

RestoreArgs == {[crop |-> FALSE, undistort |-> u, exr |-> e, image_dir |-> d] :
                   u \in BOOLEAN, e \in BOOLEAN,
                   d \in {NoDir, Dir(<<DImages>>), Dir(<<DOther>>), Dir(<<DNoDir>>)}}

Init ==
    /\ tool \in {"undistort", "restore"}
    /\ args \in IF tool = "undistort" THEN UndistortArgs ELSE RestoreArgs
    /\ \E jsonThere \in BOOLEAN, kv \in {0, 7}, fish \in {0, 1},
          missing \in MissingChoices, fl \in FrameLists,
          st \in [FramePaths -> Statuses] :
          /\ ~jsonThere => (kv = 0 /\ fish = 0 /\ missing = {} /\ fl = <<>>)
          /\ "frames" \in missing => fl = <<>>
          \* a document that lacks a key is tried with at most one frame
          /\ missing # {} => Len(fl) <= 1
          /\ tool = "undistort" => fish = 0
          /\ lens \in {"full", "inner"}
          /\ (kv = 0 /\ fish = 0) => lens = "full"
          /\ \A p \in FramePaths :
                (\A i \in 1..Len(fl) : fl[i] # p) => st[p] = "ok"
          /\ fs = InputFs(jsonThere, MakeDoc(kv, fish, missing, FrameRecords(fl)), st)
    /\ pc = "start"
    /\ exitCode = 0
    /\ log = <<>>
    /\ heap = EmptyHeap
    /\ loc = InitLoc
    /\ tableBuilds = 0
    /\ warped = 0
    /\ run = 1
    /\ prev = [valid |-> FALSE, fs |-> EmptyFs, exitCode |-> 0]

(* ------------------------------------------------------------------ *)
(* undistortionNerfstudioColmap.py: undistort_process                 *)
(* ------------------------------------------------------------------ *)
DefaultW == 1920
DefaultH == 1080
DefaultFlX == 1000

ImagesOutDir == Join(OutDir, <<DUndist>>)
NewJsonPath  == Join(OutDir, <<NOutJson>>)

(* lines 18-20: the document is not there: a message, then return; the  *)
(* script ends normally, so the process exits with status 0             *)
U_JsonMissing ==
    /\ tool = "undistort" /\ pc = "start"
    /\ ~PathExists(fs, JsonPath)
    /\ log' = Append(log, Msg("Error: JSON file not found", JsonPath, 0))
    /\ pc' = "done"
    /\ exitCode' = 0
    /\ UNCHANGED <<tool, args, lens, fs, heap, loc, tableBuilds, warped, run, prev>>

(* d.update of several keys: new_data[key] = value for each key *)
DictSetAll(hp, o, upd) ==
    [hp EXCEPT !.dicts[o] = [x \in DOMAIN @ \cup DOMAIN upd |->
                                IF x \in DOMAIN upd THEN upd[x] ELSE @[x]]]

(* NewDataFields with the list of keys to zero missing "k4" *)
NewDataFields_ForgetK4(newK, crop, roi, w, h) ==
    [fl_x |-> VNum(newK.fx), fl_y |-> VNum(newK.fy),
     cx |-> VNum(newK.cx), cy |-> VNum(newK.cy),
     w |-> VNum(IF crop THEN roi[3] ELSE w),
     h |-> VNum(IF crop THEN roi[4] ELSE h),
     k1 |-> VNum(0), k2 |-> VNum(0), k3 |-> VNum(0),
     p1 |-> VNum(0), p2 |-> VNum(0)]

(* NewDataFields taking the size of the valid region whether or not the  *)
(* images are cropped                                                    *)
NewDataFields_RoiSize(newK, crop, roi, w, h) ==
    [fl_x |-> VNum(newK.fx), fl_y |-> VNum(newK.fy),
     cx |-> VNum(newK.cx), cy |-> VNum(newK.cy),
     w |-> VNum(roi[3]), h |-> VNum(roi[4]),
     k1 |-> VNum(0), k2 |-> VNum(0), k3 |-> VNum(0), k4 |-> VNum(0),
     p1 |-> VNum(0), p2 |-> VNum(0)]

(* lines 74-83: the new intrinsics, the size and the zeroed coefficients *)
NewDataFields(newK, crop, roi, w, h) ==
    [fl_x |-> VNum(newK.fx), fl_y |-> VNum(newK.fy),
     cx |-> VNum(newK.cx), cy |-> VNum(newK.cy),
     w |-> VNum(IF crop THEN roi[3] ELSE w),
     h |-> VNum(IF crop THEN roi[4] ELSE h),
     k1 |-> VNum(0), k2 |-> VNum(0), k3 |-> VNum(0), k4 |-> VNum(0),
     p1 |-> VNum(0), p2 |-> VNum(0)]

(* line 71: new_data = data.copy() *)
CopyDocument(hp, o) == DictCopy(hp, o)

(* lines 22-91: output directory, load, parameters, new matrix, new_data *)
U_Setup ==
    /\ tool = "undistort" /\ pc = "start"
    /\ PathExists(fs, JsonPath)
    /\ LET hp0   == JsonLoad(fs.docs[JsonPath])
           data  == hp0.dicts[1]
           w     == DictGet(data, "w", VNum(DefaultW)).n
           h     == DictGet(data, "h", VNum(DefaultH)).n
           fl_x  == DictGet(data, "fl_x", VNum(DefaultFlX)).n
           fl_y  == DictGet(data, "fl_y", VNum(fl_x)).n
           cx    == DictGet(data, "cx", VNum(w \div 2)).n
           cy    == DictGet(data, "cy", VNum(h \div 2)).n
           kk(key) == DictGet(data, key, VNum(0)).n
           K     == CameraMatrix(fl_x, fl_y, cx, cy)
           D     == DistVector(kk("k1"), kk("k2"), kk("k3"), kk("k4"), kk("p1"), kk("p2"))
           alpha == IF args.crop THEN 0 ELSE 1
           opt   == GetOptimalNewCameraMatrix(K, D, w, h, alpha)
       IN   LET hp1 == CopyDocument(hp0, 1)
                nd  == hp0.next
                hp2 == DictSetAll(hp1, nd, NewDataFields(opt.newK, args.crop, opt.roi, w, h))
                hp3 == ListNew(hp2)
                nf  == hp2.next
                \* data.get("frames", []): the document's list, or a new empty one
                hp4 == IF "frames" \in DOMAIN data THEN hp3 ELSE ListNew(hp3)
                fr  == IF "frames" \in DOMAIN data THEN data["frames"].r ELSE hp3.next
            IN /\ heap' = hp4
               /\ loc' = [InitLoc EXCEPT !.w = w, !.h = h, !.K = K, !.D = D,
                                         !.newK = opt.newK, !.roi = opt.roi,
                                         !.data = 1, !.new_data = nd,
                                         !.new_frames = nf, !.frames = fr, !.idx = 0]
               /\ log' = log \o <<Msg("Reading JSON", JsonPath, 0),
                                  Msg("Processing images", <<>>, Len(hp4.lists[fr]))>>
    /\ fs' = MkdirExistOk(fs, ImagesOutDir)
    /\ pc' = "loop"
    /\ UNCHANGED <<tool, args, lens, exitCode, tableBuilds, warped, run, prev>>

(* the frame the loop is at, and the path of its image *)
U_Frame   == heap.dicts[heap.lists[loc.frames][loc.idx + 1].r]
U_RelPath == U_Frame["file_path"].p
U_ImgPath == Join(Parent(JsonPath), U_RelPath)

U_InLoop ==
    /\ tool = "undistort" /\ pc = "loop"
    /\ loc.idx < Len(heap.lists[loc.frames])

(* lines 99-101 *)
U_SkipMissing ==
    /\ U_InLoop
    /\ ~PathExists(fs, U_ImgPath)
    /\ log' = Append(log, Msg("Warning: Image not found", U_ImgPath, 0))
    /\ loc' = [loc EXCEPT !.idx = @ + 1]
    /\ UNCHANGED <<tool, args, lens, fs, pc, exitCode, heap, tableBuilds, warped, run, prev>>

(* lines 104-106: nothing is printed *)
U_SkipUndecodable ==
    /\ U_InLoop
    /\ PathExists(fs, U_ImgPath)
    /\ ImRead(fs, U_ImgPath, "IMREAD_COLOR") = NoImage
    /\ loc' = [loc EXCEPT !.idx = @ + 1]
    /\ UNCHANGED <<tool, args, lens, fs, pc, exitCode, log, heap, tableBuilds, warped, run, prev>>

(* line 116-117: the output file is named by the file name alone *)
U_SavePath(rel) == Join(ImagesOutDir, <<BaseName(rel)>>)

(* U_AppendFrame without frame.copy(): the frame of the input document  *)
(* is given the new path and appended                                    *)
U_AppendFrame_NoCopy(hp, frameOid, rel) ==
    ListAppend(DictSet(hp, frameOid, "file_path", VPath(<<DUndist, BaseName(rel)>>)),
               loc.new_frames, VRef(frameOid))

(* U_AppendFrame without the assignment of the new file_path *)
U_AppendFrame_KeepPath(hp, frameOid, rel) ==
    ListAppend(DictCopy(hp, frameOid), loc.new_frames, VRef(hp.next))

(* lines 121-124: new_frame = frame.copy(); its path; append *)
U_AppendFrame(hp, frameOid, rel) ==
    LET hp1 == DictCopy(hp, frameOid)
        hp2 == DictSet(hp1, hp.next, "file_path", VPath(<<DUndist, BaseName(rel)>>))
    IN ListAppend(hp2, loc.new_frames, VRef(hp.next))

(* lines 104-127 for a frame that decodes *)
U_ProcessFrame ==
    /\ U_InLoop
    /\ PathExists(fs, U_ImgPath)
    /\ LET img == ImRead(fs, U_ImgPath, "IMREAD_COLOR")
           dst == Undistort(img, loc.K, loc.D, loc.newK)
           out == IF args.crop THEN Crop(dst, loc.roi) ELSE dst
       IN /\ img # NoImage
          /\ fs' = ImWrite(fs, U_SavePath(U_RelPath), out)
    /\ heap' = U_AppendFrame(heap, heap.lists[loc.frames][loc.idx + 1].r, U_RelPath)
    /\ tableBuilds' = tableBuilds + 1
    /\ warped' = warped + 1
    /\ log' = IF loc.idx % 20 = 0
              THEN Append(log, Msg("Processed", <<>>, loc.idx))
              ELSE log
    /\ loc' = [loc EXCEPT !.idx = @ + 1]
    /\ UNCHANGED <<tool, args, lens, pc, exitCode, run, prev>>

(* lines 129-139: the frames of the new document, the new file, "Done!" *)
U_Finish ==
    /\ tool = "undistort" /\ pc = "loop"
    /\ loc.idx = Len(heap.lists[loc.frames])
    /\ LET hp1 == DictSet(heap, loc.new_data, "frames", VRef(loc.new_frames))
       IN /\ heap' = hp1
          /\ fs' = WriteDoc(fs, NewJsonPath, JsonDump(hp1, loc.new_data))
    /\ log' = Append(log, Msg("Done!", <<>>, 0))
    /\ pc' = "done"
    /\ exitCode' = 0
    /\ UNCHANGED <<tool, args, lens, loc, tableBuilds, warped, run, prev>>

(* ------------------------------------------------------------------ *)
(* restore_distortion.py: main                                        *)
(* ------------------------------------------------------------------ *)
RequiredKeys == {"fl_x", "fl_y", "cx", "cy", "w", "h"}

(* lines 21-23 *)
R_JsonMissing ==
    /\ tool = "restore" /\ pc = "start"
    /\ ~PathExists(fs, JsonPath)
    /\ log' = Append(log, Msg("Error: JSON file not found", JsonPath, 0))
    /\ pc' = "done"
    /\ exitCode' = 1
    /\ UNCHANGED <<tool, args, lens, fs, heap, loc, tableBuilds, warped, run, prev>>

(* lines 30-50: data['fl_x'] ... data['h'] raise KeyError for a key that *)
(* is not there; the handler prints and exits with status 1              *)
R_MissingKey ==
    /\ tool = "restore" /\ pc = "start"
    /\ PathExists(fs, JsonPath)
    /\ ~(RequiredKeys \subseteq DOMAIN fs.docs[JsonPath].fields)
    /\ log' = log \o <<Msg("Loading calibration data", JsonPath, 0),
                       Msg("Error: Missing critical key in JSON data", <<>>, 0)>>
    /\ pc' = "done"
    /\ exitCode' = 1
    /\ UNCHANGED <<tool, args, lens, fs, heap, loc, tableBuilds, warped, run, prev>>

(* cv2.fisheye.estimateNewCameraMatrixForUndistortRectify(K, D[:4], ...,  *)
(* balance=1.0): the matrix that bounds the projected field of view; it   *)
(* is K or another focal length, as lens says, also without coefficients  *)
(* (the equidistant projection is not the pinhole one)                    *)
FisheyeNewCameraMatrix(K, D4) ==
    IF lens = "full" THEN K
    ELSE CameraMatrix(K.fx + 1, K.fy + 1, K.cx, K.cy)

(* lines 73-116: the maps of the run, for the direction and the model *)
R_BuildMaps(undistort, is_fisheye, K, D, w, h) ==
    LET dir == IF undistort THEN "rectify" ELSE "distort"
        D_fish == SubSeq(D, 1, 4)
    IN IF is_fisheye
       THEN Table(dir, "fisheye", K, D_fish, FisheyeNewCameraMatrix(K, D_fish))
       ELSE Table(dir, "perspective", K, D, GetOptimalNewCameraMatrix(K, D, w, h, 1).newK)

(* lines 119-121: if not os.path.exists(output_dir): os.makedirs(output_dir) *)
R_MakeOutputDir(f, p) == IF PathExists(f, p) THEN f ELSE MkdirExistOk(f, p)

(* lines 25-121: load, parameters, matrices, maps, output directory *)
R_Setup ==
    /\ tool = "restore" /\ pc = "start"
    /\ PathExists(fs, JsonPath)
    /\ RequiredKeys \subseteq DOMAIN fs.docs[JsonPath].fields
    /\ LET hp0  == JsonLoad(fs.docs[JsonPath])
           data == hp0.dicts[1]
           w    == data["w"].n
           h    == data["h"].n
           kk(key) == DictGet(data, key, VNum(0)).n
           is_fisheye == DictGet(data, "is_fisheye", VNum(0)).n # 0
           K    == CameraMatrix(data["fl_x"].n, data["fl_y"].n, data["cx"].n, data["cy"].n)
           D    == DistVector(kk("k1"), kk("k2"), kk("k3"), kk("k4"), kk("p1"), kk("p2"))
           tbl  == R_BuildMaps(args.undistort, is_fisheye, K, D, w, h)
       IN   /\ heap' = hp0
            /\ loc' = [InitLoc EXCEPT !.w = w, !.h = h, !.K = K, !.D = D,
                                      !.newK = tbl.newK, !.data = 1, !.map = tbl]
    /\ tableBuilds' = tableBuilds + 1
    /\ fs' = R_MakeOutputDir(fs, OutDir)
    /\ log' = log \o <<Msg("Loading calibration data", JsonPath, 0),
                       Msg("Pre-calculating remapping maps", <<>>, 0)>>
                  \o (IF PathExists(fs, OutDir) THEN <<>>
                      ELSE <<Msg("Created output directory", OutDir, 0)>>)
    /\ pc' = "scan"
    /\ UNCHANGED <<tool, args, lens, exitCode, warped, run, prev>>

(* Python's order of two strings *)
RECURSIVE StrLess(_, _)
StrLess(a, b) ==
    IF b = <<>> THEN FALSE
    ELSE IF a = <<>> THEN TRUE
    ELSE IF a[1] # b[1] THEN a[1] < b[1]
    ELSE StrLess(Tail(a), Tail(b))

(* list.sort() of a list of distinct strings *)
RECURSIVE SortedNames(_)
SortedNames(S) ==
    IF S = {} THEN <<>>
    ELSE LET m == CHOOSE x \in S : \A y \in S \ {x} : StrLess(x, y)
         IN <<m>> \o SortedNames(S \ {m})

(* line 125 *)
R_BaseDir == IF args.image_dir.given THEN args.image_dir.dir ELSE Parent(JsonPath)

R_ScanMode == args.image_dir.given \/ args.exr

R_ValidExts == IF args.exr THEN ExrExts ELSE ImageExts

(* R_ScanFiles without the test of the extension *)
R_ScanFiles_AllNames == SortedNames(ListDir(fs, R_BaseDir))

(* line 143-144 *)
R_ScanFiles ==
    SortedNames({f \in ListDir(fs, R_BaseDir) : EndsWithAny(Lower(f), R_ValidExts)})

(* lines 145-147 *)
R_ScanNoDir ==
    /\ tool = "restore" /\ pc = "scan"
    /\ R_ScanMode
    /\ ~PathExists(fs, R_BaseDir)
    /\ log' = Append(log, Msg("Error: Image directory does not exist", R_BaseDir, 0))
    /\ pc' = "done"
    /\ exitCode' = 1
    /\ UNCHANGED <<tool, args, lens, fs, heap, loc, tableBuilds, warped, run, prev>>

(* R_ScanEmpty leaving through the error exit *)
R_ScanEmpty_Exit1 ==
    /\ tool = "restore" /\ pc = "scan"
    /\ R_ScanMode
    /\ PathExists(fs, R_BaseDir)
    /\ R_ScanFiles = <<>>
    /\ log' = Append(log, Msg("No matching image files found", R_BaseDir, 0))
    /\ pc' = "done"
    /\ exitCode' = 1
    /\ UNCHANGED <<tool, args, lens, fs, heap, loc, tableBuilds, warped, run, prev>>

(* lines 149-151 *)
R_ScanEmpty ==
    /\ tool = "restore" /\ pc = "scan"
    /\ R_ScanMode
    /\ PathExists(fs, R_BaseDir)
    /\ R_ScanFiles = <<>>
    /\ log' = Append(log, Msg("No matching image files found", R_BaseDir, 0))
    /\ pc' = "done"
    /\ exitCode' = 0
    /\ UNCHANGED <<tool, args, lens, fs, heap, loc, tableBuilds, warped, run, prev>>

(* lines 132-144, 161: the sorted names of the directory are the work list *)
R_ScanList ==
    /\ tool = "restore" /\ pc = "scan"
    /\ R_ScanMode
    /\ PathExists(fs, R_BaseDir)
    /\ R_ScanFiles # <<>>
    /\ loc' = [loc EXCEPT !.base_dir = R_BaseDir,
                          !.scan = TRUE,
                          !.read_flags = IF args.exr THEN "IMREAD_UNCHANGED"
                                         ELSE "IMREAD_COLOR",
                          !.files = [i \in 1..Len(R_ScanFiles) |-> VPath(<<R_ScanFiles[i]>>)],
                          !.idx = 0]
    /\ log' = Append(log, Msg("Starting processing", <<>>, Len(R_ScanFiles)))
    /\ pc' = "loop"
    /\ UNCHANGED <<tool, args, lens, fs, exitCode, heap, tableBuilds, warped, run, prev>>

(* data.get('frames', []) *)
R_Frames ==
    IF "frames" \in DOMAIN heap.dicts[loc.data]
    THEN heap.lists[heap.dicts[loc.data]["frames"].r] ELSE <<>>

(* lines 155-158 *)
R_NoFrames ==
    /\ tool = "restore" /\ pc = "scan"
    /\ ~R_ScanMode
    /\ R_Frames = <<>>
    /\ log' = Append(log, Msg("No frames found in JSON 'frames' list.", <<>>, 0))
    /\ pc' = "done"
    /\ exitCode' = 0
    /\ UNCHANGED <<tool, args, lens, fs, heap, loc, tableBuilds, warped, run, prev>>

(* lines 155-161: the frames of the document are the work list *)
R_FramesList ==
    /\ tool = "restore" /\ pc = "scan"
    /\ ~R_ScanMode
    /\ R_Frames # <<>>
    /\ loc' = [loc EXCEPT !.base_dir = R_BaseDir, !.scan = FALSE,
                          !.files = R_Frames, !.idx = 0]
    /\ log' = Append(log, Msg("Starting processing", <<>>, Len(R_Frames)))
    /\ pc' = "loop"
    /\ UNCHANGED <<tool, args, lens, fs, exitCode, heap, tableBuilds, warped, run, prev>>

(* lines 172-176: separators are normalised, one leading "./" is removed *)
R_CleanRelPath(rel) == IF rel # <<>> /\ rel[1] = <<46>> THEN Tail(rel) ELSE rel

(* lines 165-178: the path of the item the loop is at *)
R_Item == loc.files[loc.idx + 1]
R_ImagePath ==
    IF loc.scan THEN Join(loc.base_dir, R_Item.p)
    ELSE Join(loc.base_dir, R_CleanRelPath(heap.dicts[R_Item.r]["file_path"].p))

R_InLoop ==
    /\ tool = "restore" /\ pc = "loop"
    /\ loc.idx < Len(loc.files)

(* lines 180-182 *)
R_SkipMissing ==
    /\ R_InLoop
    /\ ~PathExists(fs, R_ImagePath)
    /\ log' = Append(log, Msg("[Skipping] Image not found", R_ImagePath, 0))
    /\ loc' = [loc EXCEPT !.idx = @ + 1]
    /\ UNCHANGED <<tool, args, lens, fs, pc, exitCode, heap, tableBuilds, warped, run, prev>>

(* lines 185-188 *)
R_SkipUnreadable ==
    /\ R_InLoop
    /\ PathExists(fs, R_ImagePath)
    /\ ImRead(fs, R_ImagePath, loc.read_flags) = NoImage
    /\ log' = Append(log, Msg("[Skipping] Could not read image", R_ImagePath, 0))
    /\ loc' = [loc EXCEPT !.idx = @ + 1]
    /\ UNCHANGED <<tool, args, lens, fs, pc, exitCode, heap, tableBuilds, warped, run, prev>>

(* lines 196-197 *)
R_SavePath(imagePath) == Join(OutDir, <<BaseName(imagePath)>>)

(* lines 199-205: for a name ending in ".exr" the EXR type asked of the   *)
(* encoder follows the dtype of the processed image                       *)
R_SaveParams(filename, dtype) ==
    IF EndsWith(Lower(filename), ExtExr)
    THEN (IF dtype = "f32" THEN "IMWRITE_EXR_TYPE_FLOAT"
          ELSE IF dtype = "f16" THEN "IMWRITE_EXR_TYPE_HALF" ELSE "")
    ELSE ""

(* cv2.imwrite(path, img, params): the stored depth is the depth of img,  *)
(* or half precision when the EXR type asked is HALF                      *)
Encode(img, params) ==
    IF params = "IMWRITE_EXR_TYPE_HALF" THEN [img EXCEPT !.dtype = "f16"] ELSE img

(* lines 185-211 for an image that decodes *)
R_Process ==
    /\ R_InLoop
    /\ PathExists(fs, R_ImagePath)
    /\ LET img == ImRead(fs, R_ImagePath, loc.read_flags)
           processed_img == Remap(img, loc.map)
           filename == BaseName(R_ImagePath)
       IN /\ img # NoImage
          /\ fs' = ImWrite(fs, R_SavePath(R_ImagePath),
                           Encode(processed_img, R_SaveParams(filename, processed_img.dtype)))
    /\ warped' = warped + 1
    /\ log' = IF (loc.idx + 1) % 10 = 0
              THEN Append(log, Msg("Processed", <<>>, loc.idx + 1))
              ELSE log
    /\ loc' = [loc EXCEPT !.idx = @ + 1]
    /\ UNCHANGED <<tool, args, lens, pc, exitCode, heap, tableBuilds, run, prev>>

(* line 213 and the normal end of the script *)
R_Finish ==
    /\ tool = "restore" /\ pc = "loop"
    /\ loc.idx = Len(loc.files)
    /\ log' = Append(log, Msg("Processing complete.", <<>>, 0))
    /\ pc' = "done"
    /\ exitCode' = 0
    /\ UNCHANGED <<tool, args, lens, fs, heap, loc, tableBuilds, warped, run, prev>>

(* ------------------------------------------------------------------ *)
(* build_houdini_scene.py: create_animated_camera, up to the sort of  *)
(* the frames of transforms_undistorted.json                          *)
(* ------------------------------------------------------------------ *)
(* int() of the digits of s from position i on *)
RECURSIVE DigitRun(_, _, _)
DigitRun(s, i, acc) ==
    IF i > Len(s) \/ ~IsDigit(s[i]) THEN acc
    ELSE DigitRun(s, i + 1, acc * 10 + (s[i] - 48))

(* lines 27-30: re.search(r'(\d+)', basename): the first run of digits  *)
(* of the file name as an integer, 0 when the name has no digit         *)
get_frame_num(file_path) ==
    LET fname == BaseName(file_path)
        digits == {i \in 1..Len(fname) : IsDigit(fname[i])}
    IN IF digits = {} THEN 0
       ELSE DigitRun(fname, CHOOSE i \in digits : \A j \in digits : i <= j, 0)

(* x put behind every element whose key is not greater (a stable sort) *)
RECURSIVE InsertByFrameNum(_, _)
InsertByFrameNum(sorted, x) ==
    IF sorted = <<>> THEN <<x>>
    ELSE IF get_frame_num(sorted[Len(sorted)]) <= get_frame_num(x)
         THEN Append(sorted, x)
         ELSE Append(InsertByFrameNum(SubSeq(sorted, 1, Len(sorted) - 1), x),
                     sorted[Len(sorted)])

RECURSIVE SortRec(_)
SortRec(paths) ==
    IF paths = <<>> THEN <<>>
    ELSE InsertByFrameNum(SortRec(SubSeq(paths, 1, Len(paths) - 1)), paths[Len(paths)])

(* the frames left as they are in the document *)
SortFrames_Unsorted(paths) == paths

(* line 32: frames.sort(key=get_frame_num) *)
SortFrames(paths) == SortRec(paths)

(* lines 9-11 *)
H_JsonMissing ==
    /\ tool = "undistort" /\ pc = "done"
    /\ ~PathExists(fs, NewJsonPath)
    /\ log' = Append(log, Msg("Error: File not found", NewJsonPath, 0))
    /\ pc' = "houdini"
    /\ UNCHANGED <<tool, args, lens, fs, exitCode, heap, loc, tableBuilds, warped, run, prev>>

(* lines 13-32: the frames of the document, sorted by frame number *)
H_LoadAndSort ==
    /\ tool = "undistort" /\ pc = "done"
    /\ PathExists(fs, NewJsonPath)
    /\ LET frs == fs.docs[NewJsonPath].frames
       IN loc' = [loc EXCEPT !.files =
                     [i \in 1..Len(frs) |->
                         VPath(SortFrames([j \in 1..Len(frs) |-> frs[j].file_path])[i])]]
    /\ log' = Append(log, Msg("Loading JSON", NewJsonPath, 0))
    /\ pc' = "houdini"
    /\ UNCHANGED <<tool, args, lens, fs, exitCode, heap, tableBuilds, warped, run, prev>>

(* ------------------------------------------------------------------ *)
(* The same command line is run again on what the last run left.      *)
(* ------------------------------------------------------------------ *)
Rerun ==
    /\ pc = "done"
    /\ run < MaxRuns
    /\ run' = run + 1
    /\ prev' = [valid |-> TRUE, fs |-> fs, exitCode |-> exitCode]
    /\ pc' = "start"
    /\ exitCode' = 0
    /\ log' = <<>>
    /\ heap' = EmptyHeap
    /\ loc' = InitLoc
    /\ tableBuilds' = 0
    /\ warped' = 0
    /\ UNCHANGED <<tool, args, lens, fs>>

Next ==
    \/ U_JsonMissing
    \/ U_Setup
    \/ U_SkipMissing
    \/ U_SkipUndecodable
    \/ U_ProcessFrame
    \/ U_Finish
    \/ R_JsonMissing
    \/ R_MissingKey
    \/ R_Setup
    \/ R_ScanNoDir
    \/ R_ScanEmpty
    \/ R_ScanList
    \/ R_NoFrames
    \/ R_FramesList
    \/ R_SkipMissing
    \/ R_SkipUnreadable
    \/ R_Process
    \/ R_Finish
    \/ H_JsonMissing
    \/ H_LoadAndSort
    \/ Rerun

Spec == Init /\ [][Next]_vars

(* ------------------------------------------------------------------ *)
(* What a finished run is compared with                               *)
(* ------------------------------------------------------------------ *)
JsonThere == JsonPath \in DOMAIN fs.docs
InputDoc  == fs.docs[JsonPath]
OutDoc    == fs.docs[NewJsonPath]

(* the image file at p is there and decodes *)
Decodes(p) == p \in DOMAIN fs.files /\ fs.files[p].kind = "img"

(* the run went through its frame loop and ended *)
U_BatchDone == tool = "undistort" /\ pc = "done" /\ JsonThere
R_BatchDone == tool = "restore" /\ pc = "done" /\ loc.files # <<>>

(* the image paths of the work list of the run, in the order of the list *)
WorkPaths ==
    IF tool = "undistort"
    THEN [i \in 1..Len(InputDoc.frames) |->
             Join(Parent(JsonPath), InputDoc.frames[i].file_path)]
    ELSE [i \in 1..Len(loc.files) |->
             IF loc.scan THEN Join(loc.base_dir, loc.files[i].p)
             ELSE Join(loc.base_dir, heap.dicts[loc.files[i].r]["file_path"].p)]

SkippedFrames == {i \in 1..Len(WorkPaths) : ~Decodes(WorkPaths[i])}

WarningKinds == {"Warning: Image not found", "[Skipping] Image not found",
                 "[Skipping] Could not read image"}

Warned(p) == \E j \in 1..Len(log) : log[j].t \in WarningKinds /\ log[j].p = p

(* C1: in a batch run a frame whose image is missing or does not decode is
   skipped with a warning and is not fatal: the later frames are processed,
   the run ends normally, and the last line printed reports the count of
   skipped frames. *)
C1_SkipWarnedNotFatalCounted ==
    (U_BatchDone \/ R_BatchDone) =>
        /\ exitCode = 0
        /\ warped = Len(WorkPaths) - Cardinality(SkippedFrames)
        /\ \A i \in SkippedFrames : Warned(WorkPaths[i])
        /\ SkippedFrames # {} => log[Len(log)].n = Cardinality(SkippedFrames)

(* the part of C1 the code keeps: a skip is not fatal, the other frames
   are warped and the run ends with status 0 *)
C1_SkipNotFatal ==
    (U_BatchDone \/ R_BatchDone) =>
        /\ exitCode = 0
        /\ warped = Len(WorkPaths) - Cardinality(SkippedFrames)

(* the frames undistort_process is expected to keep: those whose image
   decodes, in document order, each pointing into images_undistorted *)
KeptFrame(fr) == Decodes(Join(Parent(JsonPath), fr.file_path))

ExpectedFrames ==
    LET kept == SelectSeq(InputDoc.frames, KeptFrame)
    IN [i \in 1..Len(kept) |->
           FrameVal(<<DUndist, BaseName(kept[i].file_path)>>, kept[i].transform_matrix)]

(* C2: after undistort_process the frames of the output document are exactly
   the input frames that were read and warped, in the input order, each with
   file_path rewritten to images_undistorted/<file name>. *)
C2_OutputFramesAreProcessedInOrder ==
    U_BatchDone => OutDoc.hasFrames /\ OutDoc.frames = ExpectedFrames

C2_Witness ==
    /\ U_BatchDone
    /\ Len(InputDoc.frames) = 2
    /\ Len(OutDoc.frames) = 1
    /\ SkippedFrames = {1}

(* C3: in the document written by undistort_process k1, k2, k3, k4, p1, p2
   are all 0 whatever the input held (also for keys the input lacks), and
   w/h are the valid region's w/h with crop, the w/h read from the input
   otherwise. *)
C3_CoefficientsZeroSizeConsistent ==
    U_BatchDone =>
        /\ \A key \in DistKeys : key \in DOMAIN OutDoc.fields /\ OutDoc.fields[key] = 0
        /\ args.crop  => OutDoc.fields["w"] = loc.roi[3] /\ OutDoc.fields["h"] = loc.roi[4]
        /\ ~args.crop => /\ OutDoc.fields["w"] = DictGet(InputDoc.fields, "w", DefaultW)
                         /\ OutDoc.fields["h"] = DictGet(InputDoc.fields, "h", DefaultH)

C3_Witness ==
    /\ U_BatchDone
    /\ args.crop
    /\ "k1" \notin DOMAIN InputDoc.fields
    /\ InputDoc.fields["k2"] # 0
    /\ loc.roi[3] # loc.w
    /\ OutDoc.fields["w"] = loc.roi[3]

(* the keys undistort_process rewrites in the new document *)
RewrittenKeys == {"fl_x", "fl_y", "cx", "cy", "w", "h"} \cup DistKeys

InputObjects  == Reachable(heap, loc.data)
OutputObjects == Reachable(heap, loc.new_data)

InputUnchanged == JsonDump(heap, loc.data) = InputDoc

PassedThrough ==
    /\ DOMAIN OutDoc.fields = DOMAIN InputDoc.fields \cup RewrittenKeys
    /\ \A key \in DOMAIN InputDoc.fields \ RewrittenKeys :
          OutDoc.fields[key] = InputDoc.fields[key]

(* the transform_matrix objects of the frames of the output document *)
OutputMatrices ==
    {heap.dicts[o]["transform_matrix"].r : o \in RefsOfList(heap, loc.new_frames)}

(* C4 as stated: the output document is a copy, the parsed input document is
   not changed, the other fields are passed through unchanged, and no object
   reachable from the output document (frame records and their nested
   transform_matrix included) is an object reachable from the input. *)
C4_CopyWithoutAliasing ==
    U_BatchDone =>
        /\ InputUnchanged
        /\ PassedThrough
        /\ OutputObjects \cap InputObjects = {}

(* C4 as amended: the copy is shallow.  The input document is not changed,
   the other fields are passed through, the output document, its frames list
   and its frame records are new objects; the only objects shared with the
   input document are the transform_matrix values of the kept frames. *)
C4_ShallowCopy ==
    U_BatchDone =>
        /\ InputUnchanged
        /\ PassedThrough
        /\ OutputObjects \cap InputObjects = OutputMatrices
        /\ OutputMatrices \subseteq DOMAIN heap.lists

C4_Witness ==
    /\ U_BatchDone
    /\ warped = 2
    /\ Cardinality(OutputObjects \cap InputObjects) = 2
    /\ OutDoc.fields["aabb_scale"] = InputDoc.fields["aabb_scale"]

(* C5: when the input calibration document does not exist, the tool fails
   at once with a non-zero exit status. *)
C5_MissingDocumentExitsNonZero ==
    (pc = "done" /\ ~JsonThere) => exitCode # 0 /\ warped = 0

(* the intrinsic fields the interface table gives no default for *)
RequiredBySpec == {"w", "h", "fl_x"}

AbortedOnMissingKey ==
    \E j \in 1..Len(log) : log[j].t = "Error: Missing critical key in JSON data"

(* C6: a run on a document that lacks a required intrinsic field aborts with
   a non-zero exit and processes no frame; a document that lacks only fields
   with documented defaults (fl_y, cx, cy, the distortion coefficients) is
   not aborted for that. *)
C6_RequiredAbortDefaultedProceed ==
    (pc = "done" /\ JsonThere) =>
        /\ ~(RequiredBySpec \subseteq DOMAIN InputDoc.fields) =>
               exitCode # 0 /\ warped = 0
        /\ RequiredBySpec \subseteq DOMAIN InputDoc.fields => ~AbortedOnMissingKey

(* restore_distortion has nothing to process *)
R_EmptyWorkSet ==
    IF R_ScanMode
    THEN /\ PathExists(fs, R_BaseDir)
         /\ ~\E name \in ListDir(fs, R_BaseDir) : EndsWithAny(Lower(name), R_ValidExts)
    ELSE ~InputDoc.hasFrames \/ InputDoc.frames = <<>>

InfoKinds == {"No matching image files found", "No frames found in JSON 'frames' list."}

(* C7: in restore_distortion.main, when the set of images to process is
   empty (the scan finds no file with a recognised extension, or the frames
   list is empty or absent), the process exits with status 0 after an
   informational message and writes no image. *)
C7_EmptySetCleanExit ==
    (/\ tool = "restore" /\ pc = "done" /\ JsonThere
     /\ RequiredKeys \subseteq DOMAIN InputDoc.fields
     /\ R_EmptyWorkSet) =>
        /\ exitCode = 0
        /\ log[Len(log)].t \in InfoKinds
        /\ warped = 0
        /\ \A p \in DOMAIN fs.files : Parent(p) # OutDir

C7_Witness ==
    /\ tool = "restore" /\ pc = "done" /\ JsonThere
    /\ args.image_dir.given /\ ~args.exr
    /\ InputDoc.frames # <<>>
    /\ R_EmptyWorkSet
    /\ exitCode = 0

(* C8: in a batch run over N >= 1 frames the remap table is computed
   exactly once, before the first frame is warped, and is not computed again
   for a later frame, in restore_distortion and in undistort_process. *)
C8_TableComputedOnce ==
    (/\ pc = "loop" \/ U_BatchDone \/ R_BatchDone
     /\ Len(WorkPaths) >= 1) =>
        tableBuilds = 1

OutPaths == [i \in 1..Len(OutDoc.frames) |-> OutDoc.frames[i].file_path]

NonDecreasingFrameNums(paths) ==
    \A i, j \in 1..Len(paths) :
        i < j => get_frame_num(paths[i]) <= get_frame_num(paths[j])

Occurrences(paths, x) == Cardinality({i \in 1..Len(paths) : paths[i] = x})

(* C9 as stated: the batch undistorter processes frames, and lists them in
   the output document, in ascending order of the numeric token of the file
   name, whatever the order of the input frames list. *)
C9_OutputInFrameNumberOrder ==
    U_BatchDone => NonDecreasingFrameNums(OutPaths)

(* C9 as amended: undistort_process lists the frames in the order of the
   input frames list, without sorting; the ascending order of the numeric
   token is made downstream by the frame sort of build_houdini_scene, whose
   result holds the same frames with non-decreasing frame numbers whatever
   the order of the frames list. *)
C9_DocumentOrderSortedDownstream ==
    /\ U_BatchDone =>
          LET kept == SelectSeq(InputDoc.frames, KeptFrame)
          IN /\ Len(OutPaths) = Len(kept)
             /\ \A i \in 1..Len(kept) :
                   BaseName(OutPaths[i]) = BaseName(kept[i].file_path)
    /\ (tool = "undistort" /\ pc = "houdini" /\ PathExists(fs, NewJsonPath)) =>
          LET sorted == [i \in 1..Len(loc.files) |-> loc.files[i].p]
          IN /\ NonDecreasingFrameNums(sorted)
             /\ Len(sorted) = Len(OutPaths)
             /\ \A i \in 1..Len(OutPaths) :
                   Occurrences(sorted, OutPaths[i]) = Occurrences(OutPaths, OutPaths[i])

C9_Witness ==
    /\ tool = "undistort" /\ pc = "houdini" /\ PathExists(fs, NewJsonPath)
    /\ Len(OutPaths) = 2
    /\ get_frame_num(OutPaths[1]) = 10
    /\ get_frame_num(OutPaths[2]) = 2
    /\ get_frame_num(loc.files[1].p) = 2
    /\ get_frame_num(loc.files[2].p) = 10

(* C10: running a batch again with the same inputs and the same output
   directory does not fail because the output exists, overwrites the output
   files, and leaves the output directory and the output document as the
   first run left them. *)
C10_RerunIdempotent ==
    (pc = "done" /\ prev.valid) =>
        /\ exitCode = prev.exitCode
        /\ fs = prev.fs

C10_Witness ==
    /\ pc = "done" /\ run = 2 /\ prev.valid
    /\ tool = "undistort"
    /\ warped = 2
    /\ exitCode = 0
    /\ PathExists(prev.fs, ImagesOutDir)
    /\ fs = prev.fs

(* the names of a directory that the scan of restore_distortion takes,   *)
(* for the extensions of the mode                                         *)
NamesWithExt(dir, exts) == {f \in ListDir(fs, dir) : EndsWithAny(Lower(f), exts)}

(* the files the loop of restore_distortion goes through, as paths *)
R_WorkSet ==
    {IF loc.scan THEN Join(loc.base_dir, loc.files[i].p)
     ELSE Join(loc.base_dir, R_CleanRelPath(heap.dicts[loc.files[i].r]["file_path"].p)) :
        i \in 1..Len(loc.files)}

(* C12: in restore_distortion.main, with an image directory given the
   frames list of the document is not consulted (the run works with frames
   empty or absent) and the files processed are exactly the files of that
   directory with a recognized image extension (the image extensions, or
   ".exr" under --exr); with no directory and no --exr the files processed
   are exactly those the frames of the document name, relative to the
   directory of the document. *)
C12_ScanOrFrames ==
    (tool = "restore" /\ pc = "loop") =>
        /\ args.image_dir.given =>
              /\ loc.scan
              /\ R_WorkSet = {Join(args.image_dir.dir, <<f>>) :
                                 f \in NamesWithExt(args.image_dir.dir, R_ValidExts)}
        /\ (~args.image_dir.given /\ ~args.exr) =>
              /\ ~loc.scan
              /\ R_WorkSet = {Join(Parent(JsonPath), R_CleanRelPath(InputDoc.frames[i].file_path)) :
                                 i \in 1..Len(InputDoc.frames)}

(* a run with a directory given and a document without the key "frames"
   is in its loop over the files of the directory *)
C12_Witness ==
    /\ tool = "restore" /\ pc = "loop"
    /\ args.image_dir.given /\ ~args.exr
    /\ ~InputDoc.hasFrames
    /\ Len(loc.files) = 3
    /\ warped = 2

(* C13 as stated: every image restore_distortion.main writes has the
   dtype of the source image it was read from, in every mode. *)
C13_FormatPreserved ==
    [][(R_InLoop /\ warped' = warped + 1) =>
          fs'.files[R_SavePath(R_ImagePath)].dtype = fs.files[R_ImagePath].dtype]_vars

(* what holds of C13: under --exr the written image has the dtype of the
   source, and an 8-bit source is written 8-bit in every mode *)
C13_ExrOrEightBitPreserved ==
    [][(R_InLoop /\ warped' = warped + 1
          /\ (args.exr \/ fs.files[R_ImagePath].dtype = "u8")) =>
          fs'.files[R_SavePath(R_ImagePath)].dtype = fs.files[R_ImagePath].dtype]_vars

(* the image undistort_process computes from the source image at src *)
WarpedImageOf(src) ==
    LET dst == Undistort(ImRead(fs, src, "IMREAD_COLOR"), loc.K, loc.D, loc.newK)
    IN IF args.crop THEN Crop(dst, loc.roi) ELSE dst

(* the source image of the i-th frame record of the output document: the
   i-th frame of the input document among those that decode *)
SourceOf(i) ==
    Join(Parent(JsonPath), SelectSeq(InputDoc.frames, KeptFrame)[i].file_path)

(* C18 as stated: after undistort_process every frame record of the output
   document points to a file that exists in images_undistorted and holds
   the warped image of the record's own source image, and two processed
   frames with different source images never refer to the same output
   file. *)
C18_OutputFileHoldsOwnSource ==
    U_BatchDone =>
        /\ Len(OutDoc.frames) = Len(SelectSeq(InputDoc.frames, KeptFrame))
        /\ \A i \in 1..Len(OutDoc.frames) :
              /\ Parent(OutDoc.frames[i].file_path) = <<DUndist>>
              /\ Join(OutDir, OutDoc.frames[i].file_path) \in DOMAIN fs.files
              /\ fs.files[Join(OutDir, OutDoc.frames[i].file_path)] =
                     WarpedImageOf(SourceOf(i))
        /\ \A i, j \in 1..Len(OutDoc.frames) :
              SourceOf(i) # SourceOf(j) =>
                  OutDoc.frames[i].file_path # OutDoc.frames[j].file_path

(* ------------------------------------------------------------------ *)
(* undistort_process on a perspective camera of 1920x1080 with radial *)
(* distortion and a fixed number of frames.  The coefficients are in  *)
(* hundredths: k1 = -0.05 is -5, k2 = 0.01 is 1.                      *)
(* ------------------------------------------------------------------ *)
ScenarioFrames == 3

ScenarioFields ==
    [w |-> 1920, h |-> 1080, fl_x |-> 1400, fl_y |-> 1400, cx |-> 960, cy |-> 540,
     k1 |-> -5, k2 |-> 1, is_fisheye |-> 0]

ScenarioDoc(frs) == [fields |-> ScenarioFields, hasFrames |-> TRUE, frames |-> frs]

ScenarioPaths == FramePaths \cup {<<DImages, NameH3>>}

ScenarioInit ==
    /\ tool = "undistort"
    /\ args \in UndistortArgs
    /\ lens \in {"full", "inner"}
    /\ \E fl \in [1..ScenarioFrames -> ScenarioPaths], st \in [FramePaths -> Statuses] :
          /\ \A p \in FramePaths :
                (\A i \in 1..Len(fl) : fl[i] # p) => st[p] = "ok"
          /\ fs = InputFs(TRUE, ScenarioDoc(FrameRecords(fl)), st)
    /\ pc = "start"
    /\ exitCode = 0
    /\ log = <<>>
    /\ heap = EmptyHeap
    /\ loc = InitLoc
    /\ tableBuilds = 0
    /\ warped = 0
    /\ run = 1
    /\ prev = [valid |-> FALSE, fs |-> EmptyFs, exitCode |-> 0]

ScenarioNext ==
    \/ U_Setup
    \/ U_SkipMissing
    \/ U_SkipUndecodable
    \/ U_ProcessFrame
    \/ U_Finish

SpecScenario == ScenarioInit /\ [][ScenarioNext]_vars

(* every frame of the input document names an image that is there and decodes *)
AllFramesDecode ==
    \A i \in 1..Len(InputDoc.frames) :
        Decodes(Join(Parent(JsonPath), InputDoc.frames[i].file_path))

(* the files directly under the directory of the output images *)
OutputImages == {p \in DOMAIN fs.files : Parent(p) = ImagesOutDir}

DistinctNames ==
    \A i, j \in 1..Len(InputDoc.frames) :
        i # j => BaseName(InputDoc.frames[i].file_path) # BaseName(InputDoc.frames[j].file_path)

(* C11: with crop disabled and a document whose frames (three of them)
   all name images that exist and decode, the output document has the w and
   h of the input document (1920x1080), one image is written per frame
   (three), and every frame is listed, in order, with the path
   images_undistorted/<name> of an image that is there; the three written
   images are three files when the names of the frames differ. *)
C11_NoCropKeepsSizeAndFrames ==
    (tool = "undistort" /\ pc = "done" /\ ~args.crop /\ AllFramesDecode) =>
        /\ OutDoc.fields.w = InputDoc.fields.w
        /\ OutDoc.fields.h = InputDoc.fields.h
        /\ warped = Len(InputDoc.frames)
        /\ Len(OutDoc.frames) = Len(InputDoc.frames)
        /\ \A i \in 1..Len(InputDoc.frames) :
              /\ OutDoc.frames[i].file_path =
                     <<DUndist, BaseName(InputDoc.frames[i].file_path)>>
              /\ Decodes(Join(OutDir, OutDoc.frames[i].file_path))
        /\ DistinctNames => Cardinality(OutputImages) = Len(InputDoc.frames)

C11_Witness ==
    /\ tool = "undistort" /\ pc = "done" /\ ~args.crop /\ AllFramesDecode
    /\ lens = "inner"
    /\ Len(InputDoc.frames) = 3
    /\ DistinctNames
    /\ OutDoc.fields.w = 1920 /\ OutDoc.fields.h = 1080
    /\ Cardinality(OutputImages) = 3

(* ------------------------------------------------------------------ *)
(* The rectify maps of restore_distortion as numbers.  Normalised     *)
(* coordinates are exact fractions <<n, d>> with d > 0; angles and    *)
(* radii of the fisheye model are in thousandths; a coefficient c of  *)
(* a document stands for c / 100; a map stores a sample coordinate in *)
(* 1/32 of a pixel, as the map type CV_16SC2 does.                    *)
(* ------------------------------------------------------------------ *)
RECURSIVE GCD(_, _)
GCD(a, b) == IF b = 0 THEN a ELSE GCD(b, a % b)

Abs(a) == IF a < 0 THEN -a ELSE a

Rat(n, d) ==
    LET g == GCD(Abs(n), Abs(d))
        sg == IF d < 0 THEN -1 ELSE 1
    IN IF n = 0 THEN <<0, 1>> ELSE <<sg * (n \div g), sg * (d \div g)>>

RInt(n) == <<n, 1>>

RMul(a, b) ==
    LET x == Rat(a[1], b[2])
        y == Rat(b[1], a[2])
    IN Rat(x[1] * y[1], x[2] * y[2])

RDiv(a, b) == RMul(a, Rat(b[2], b[1]))

RAdd(a, b) ==
    LET g == GCD(a[2], b[2])
    IN Rat(a[1] * (b[2] \div g) + b[1] * (a[2] \div g), (a[2] \div g) * b[2])

(* a coefficient of the document as a fraction *)
Coef(c) == Rat(c, 100)

(* cvRound(x * 32): the coordinate in 1/32 of a pixel; the fraction of   *)
(* the pixel is taken to six digits                                      *)
Round32(q) ==
    LET ip  == q[1] \div q[2]
        sh  == (q[2] \div 1000000) + 1
        rem == (q[1] - ip * q[2]) \div sh
        d   == q[2] \div sh
    IN ip * 32 + (rem * 64 + d) \div (2 * d)

(* OpenCV's perspective model: the radial factor of the point (x, y) *)
RadialFactor_Doubled(r2, D) == RInt(2)

RadialFactor(r2, D) ==
    LET k1 == Coef(D[1])  k2 == Coef(D[2])  k3 == Coef(D[5])
        k4 == Coef(D[6])  k5 == Coef(D[7])  k6 == Coef(D[8])
        num == RAdd(RInt(1), RMul(RAdd(RMul(RAdd(RMul(k3, r2), k2), r2), k1), r2))
        den == RAdd(RInt(1), RMul(RAdd(RMul(RAdd(RMul(k6, r2), k5), r2), k4), r2))
    IN RDiv(num, den)

(* cv2.initUndistortRectifyMap(K, D, None, new_K, (w, h), CV_16SC2): the  *)
(* source coordinate sampled for the destination pixel (u, v)             *)
PerspectiveSample(K, D, newK, u, v) ==
    LET x  == Rat(u - newK.cx, newK.fx)
        y  == Rat(v - newK.cy, newK.fy)
        x2 == RMul(x, x)
        y2 == RMul(y, y)
        r2 == RAdd(x2, y2)
        xy2 == RMul(RInt(2), RMul(x, y))
        p1 == Coef(D[3])
        p2 == Coef(D[4])
        kr == RadialFactor(r2, D)
        xd == RAdd(RMul(x, kr),
                   RAdd(RMul(p1, xy2), RMul(p2, RAdd(r2, RMul(RInt(2), x2)))))
        yd == RAdd(RMul(y, kr),
                   RAdd(RMul(p1, RAdd(r2, RMul(RInt(2), y2))), RMul(p2, xy2)))
    IN <<Round32(RAdd(RMul(RInt(K.fx), xd), RInt(K.cx))),
         Round32(RAdd(RMul(RInt(K.fy), yd), RInt(K.cy)))>>

(* the integer square root *)
RECURSIVE ISqrtIn(_, _, _)
ISqrtIn(n, lo, hi) ==
    IF lo >= hi THEN lo
    ELSE LET mid == (lo + hi + 1) \div 2
         IN IF mid * mid <= n THEN ISqrtIn(n, mid, hi) ELSE ISqrtIn(n, lo, mid - 1)

ISqrt(n) == ISqrtIn(n, 0, 40000)

(* atan of r / 1000, in thousandths of a radian: a rational approximation *)
(* (error below 0.002) on [0, 1], and pi/2 - atan(1/r) above               *)
RECURSIVE AtanMilli(_)
AtanMilli(rm) ==
    IF rm > 1000 THEN 1571 - AtanMilli(1000000 \div rm)
    ELSE LET x2 == (rm * rm) \div 1000
             x4 == (x2 * x2) \div 1000
         IN (rm * (105000 + 55 * x2)) \div (105000 + 90 * x2 + 9 * x4)

(* cv2.fisheye.initUndistortRectifyMap(K, D[:4], eye, new_K, (w, h),       *)
(* CV_16SC2): the equidistant model, theta = atan(r),                      *)
(* theta_d = theta (1 + k1 theta^2 + k2 theta^4 + k3 theta^6 + k4 theta^8) *)
FisheyeSample(K, D4, newK, u, v) ==
    LET x  == Rat(u - newK.cx, newK.fx)
        y  == Rat(v - newK.cy, newK.fy)
        r2 == RAdd(RMul(x, x), RMul(y, y))
        r  == ISqrt((r2[1] * 1000000) \div r2[2])
        theta == AtanMilli(r)
        t2 == (theta * theta) \div 1000
        t4 == (t2 * t2) \div 1000
        t6 == (t4 * t2) \div 1000
        t8 == (t4 * t4) \div 1000
        theta_d == (theta * (1000 + (D4[1] * t2 + D4[2] * t4 + D4[3] * t6 + D4[4] * t8)
                                        \div 100)) \div 1000
        scale == IF r = 0 THEN RInt(1) ELSE Rat(theta_d, r)
    IN <<Round32(RAdd(RMul(RInt(K.fx), RMul(x, scale)), RInt(K.cx))),
         Round32(RAdd(RMul(RInt(K.fy), RMul(y, scale)), RInt(K.cy)))>>

Pixels(w, h) == (0..(w - 1)) \X (0..(h - 1))

(* map1, map2 of lines 100-116 for the table tbl of the run *)
RectifyMap(tbl, w, h) ==
    [px \in Pixels(w, h) |->
        IF tbl.model = "fisheye"
        THEN FisheyeSample(tbl.K, tbl.D, tbl.newK, px[1], px[2])
        ELSE PerspectiveSample(tbl.K, tbl.D, tbl.newK, px[1], px[2])]

IdentityMap(w, h) == [px \in Pixels(w, h) |-> <<32 * px[1], 32 * px[2]>>]

(* the sizes, cameras and coefficients the maps are built for *)
MaxW == 5
MaxH == 4

TableCameras == {CameraMatrix(fx, fy, cx, cy) : fx \in {1, 2}, fy \in {1, 2},
                                                 cx \in {1, 2}, cy \in {1}}

TableCoefficients ==
    {DistVector(0, 0, 0, 0, 0, 0), DistVector(10, 0, 0, 0, 0, 0),
     DistVector(0, 0, 0, 0, 10, 0), DistVector(7, 7, 7, 7, 7, 7)}

TableInit ==
    /\ tool = "restore"
    /\ args = [crop |-> FALSE, undistort |-> TRUE, exr |-> FALSE, image_dir |-> NoDir]
    /\ lens \in {"full", "inner"}
    /\ \E w \in 3..MaxW, h \in 3..MaxH, K \in TableCameras, D \in TableCoefficients,
          fish \in BOOLEAN :
          /\ ((\A i \in 1..Len(D) : D[i] = 0) /\ ~fish) => lens = "full"
          /\ loc = [w |-> w, h |-> h, K |-> K, D |-> D, is_fisheye |-> fish,
                    newK |-> NoMatrix, map |-> NoTable, map1 |-> <<>>]
    /\ fs = EmptyFs
    /\ pc = "maps"
    /\ exitCode = 0
    /\ log = <<>>
    /\ heap = EmptyHeap
    /\ tableBuilds = 0
    /\ warped = 0
    /\ run = 1
    /\ prev = [valid |-> FALSE, fs |-> EmptyFs, exitCode |-> 0]

(* lines 112-116: the perspective maps of the undistort direction *)
T_PerspectiveMaps ==
    /\ pc = "maps" /\ ~loc.is_fisheye
    /\ LET tbl == R_BuildMaps(args.undistort, FALSE, loc.K, loc.D, loc.w, loc.h)
       IN loc' = [loc EXCEPT !.map = tbl, !.newK = tbl.newK,
                             !.map1 = RectifyMap(tbl, loc.w, loc.h)]
    /\ tableBuilds' = tableBuilds + 1
    /\ pc' = "built"
    /\ UNCHANGED <<tool, args, lens, fs, exitCode, log, heap, warped, run, prev>>

(* lines 104-111: the fisheye maps of the undistort direction *)
T_FisheyeMaps ==
    /\ pc = "maps" /\ loc.is_fisheye
    /\ LET tbl == R_BuildMaps(args.undistort, TRUE, loc.K, loc.D, loc.w, loc.h)
       IN loc' = [loc EXCEPT !.map = tbl, !.newK = tbl.newK,
                             !.map1 = RectifyMap(tbl, loc.w, loc.h)]
    /\ tableBuilds' = tableBuilds + 1
    /\ pc' = "built"
    /\ UNCHANGED <<tool, args, lens, fs, exitCode, log, heap, warped, run, prev>>

TableNext == T_PerspectiveMaps \/ T_FisheyeMaps

SpecTable == TableInit /\ [][TableNext]_vars

ZeroCoefficients == \A i \in 1..Len(loc.D) : loc.D[i] = 0

(* C14 as stated: with all coefficients zero the rectify map is the
   identity, for the perspective and the fisheye model. *)
C14_ZeroCoefficientsIdentity ==
    (pc = "built" /\ ZeroCoefficients) => loc.map1 = IdentityMap(loc.w, loc.h)

(* the square of the distance, in 1/32 pixel, of a sample s from the
   principal point of K *)
Dist2(s, K) == (s[1] - 32 * K.cx) * (s[1] - 32 * K.cx) + (s[2] - 32 * K.cy) * (s[2] - 32 * K.cy)

(* C14 as amended: with all coefficients zero the perspective rectify map
   is the identity; the fisheye rectify map is not: when the new matrix is K
   every pixel samples the source no farther from the principal point than
   the pixel is, and the pixels off the principal point sample it nearer. *)
C14_IdentityPerspectiveOnly ==
    (pc = "built" /\ ZeroCoefficients) =>
        /\ loc.map.model = "perspective" => loc.map1 = IdentityMap(loc.w, loc.h)
        /\ loc.map.model = "fisheye" =>
              /\ loc.map1 # IdentityMap(loc.w, loc.h)
              /\ loc.newK = loc.K =>
                    \A px \in Pixels(loc.w, loc.h) :
                        /\ Dist2(loc.map1[px], loc.K) <= Dist2(<<32 * px[1], 32 * px[2]>>, loc.K)
                        /\ (px # <<loc.K.cx, loc.K.cy>>) =>
                              Dist2(loc.map1[px], loc.K) < Dist2(<<32 * px[1], 32 * px[2]>>, loc.K)

C14_Witness ==
    /\ pc = "built" /\ ZeroCoefficients
    /\ loc.map.model = "fisheye" /\ loc.map.dir = "rectify"
    /\ loc.newK = loc.K
    /\ loc.map1[<<loc.K.cx, loc.K.cy>>] = <<32 * loc.K.cx, 32 * loc.K.cy>>
    /\ loc.map1[<<0, 0>>] # <<0, 0>>

(* ------------------------------------------------------------------ *)
(* autotracker.py: main and process_video.  The external binaries are *)
(* files of the directory "bin"; what a command does to the files is  *)
(* chosen among the outcomes an external process can have.  The log   *)
(* keeps the calls and commands of all the runs on a scenes directory.*)
(* ------------------------------------------------------------------ *)
DVideos == <<118, 105, 100, 101, 111, 115>>
DScenes == <<115, 99, 101, 110, 101, 115>>
DBin == <<98, 105, 110>>
NFfmpeg == <<102, 102, 109, 112, 101, 103>>
NColmap == <<99, 111, 108, 109, 97, 112>>
NGlomap == <<103, 108, 111, 109, 97, 112>>
NVideoA == <<97, 46, 109, 112, 52>>
NVideoB == <<98, 46, 109, 112, 52>>
DSparse == <<115, 112, 97, 114, 115, 101>>
DZero == <<48>>
NDatabase == <<100, 97, 116, 97, 98, 97, 115, 101, 46, 100, 98>>
NFrame1 == <<102, 114, 97, 109, 101, 95, 48, 48, 48, 48, 48, 49, 46, 106, 112, 103>>
NCamerasBin == <<99, 97, 109, 101, 114, 97, 115, 46, 98, 105, 110>>
NCamerasTxt == <<99, 97, 109, 101, 114, 97, 115, 46, 116, 120, 116>>

Blob == [kind |-> "blob", dtype |-> "", pix |-> 0, ops |-> <<>>]

IsDir(f, p) == p \in f.dirs
IsFile(f, p) == p \in DOMAIN f.files \/ p \in DOMAIN f.docs

(* a file written by an external command *)
WriteFile(f, p, content) ==
    [f EXCEPT !.files = [q \in DOMAIN @ \cup {p} |-> IF q = p THEN content ELSE @[q]]]

(* os.path.splitext(name)[0]: the name without its last extension *)
SplitExt(name) ==
    LET dots == {i \in 2..Len(name) : name[i] = 46}
    IN IF dots = {} THEN name
       ELSE SubSeq(name, 1, (CHOOSE i \in dots : \A j \in dots : j <= i) - 1)

Event(t, p, r, ok) == [t |-> t, p |-> p, n |-> r, ok |-> ok]

(* lines 12-30: subprocess.run(cmd, check=True) of a binary: True when   *)
(* the command ends with status 0, False when it fails or the binary is  *)
(* not found                                                             *)
run_command(binary) ==
    IF IsFile(fs, <<DBin, binary>>) THEN {"ok", "failed"} ELSE {"not found"}

VideoNames == {NVideoA, NVideoB}

TrackerFs(videosThere, scenesThere, videos, bins) ==
    [dirs  |-> {<<>>, <<DBin>>} \cup (IF videosThere THEN {<<DVideos>>} ELSE {})
                                 \cup (IF scenesThere THEN {<<DScenes>>} ELSE {}),
     files |-> [q \in {<<DVideos, v>> : v \in videos} \cup {<<DBin, b>> : b \in bins} |-> Blob],
     docs  |-> <<>>]

TrackerArgs == [videos_dir |-> <<DVideos>>, scenes_dir |-> <<DScenes>>]

TrackerInit ==
    /\ tool = "autotracker"
    /\ args = TrackerArgs
    /\ lens = "full"
    /\ \E videosThere \in BOOLEAN, scenesThere \in BOOLEAN,
          videos \in SUBSET VideoNames, bins \in SUBSET {NFfmpeg, NColmap, NGlomap} :
          /\ ~videosThere => videos = {}
          /\ fs = TrackerFs(videosThere, scenesThere, videos, bins)
    /\ pc = "start"
    /\ exitCode = 0
    /\ log = <<>>
    /\ heap = EmptyHeap
    /\ loc = [video_files |-> <<>>, idx |-> 0]
    /\ tableBuilds = 0
    /\ warped = 0
    /\ run = 1
    /\ prev = [valid |-> FALSE, fs |-> EmptyFs, exitCode |-> 0]

(* line 200: the files of videos_dir *)
VideoFiles ==
    SortedNames({f \in ListDir(fs, args.videos_dir) : IsFile(fs, Join(args.videos_dir, <<f>>))})

(* lines 186-189 *)
A_NoVideosDir ==
    /\ tool = "autotracker" /\ pc = "start"
    /\ ~IsDir(fs, args.videos_dir)
    /\ log' = Append(log, Event("[ERROR] Input folder missing", args.videos_dir, run, FALSE))
    /\ pc' = "done"
    /\ exitCode' = 1
    /\ UNCHANGED <<tool, args, lens, fs, heap, loc, tableBuilds, warped, run, prev>>

(* lines 191-206: the scenes directory is made, no video is found *)
A_NoVideos ==
    /\ tool = "autotracker" /\ pc = "start"
    /\ IsDir(fs, args.videos_dir)
    /\ VideoFiles = <<>>
    /\ fs' = MkdirExistOk(fs, args.scenes_dir)
    /\ log' = Append(log, Event("[INFO] No video files found", args.videos_dir, run, TRUE))
    /\ pc' = "done"
    /\ exitCode' = 0
    /\ UNCHANGED <<tool, args, lens, heap, loc, tableBuilds, warped, run, prev>>

(* lines 191-210: the scenes directory, the list of videos *)
A_Start ==
    /\ tool = "autotracker" /\ pc = "start"
    /\ IsDir(fs, args.videos_dir)
    /\ VideoFiles # <<>>
    /\ fs' = MkdirExistOk(fs, args.scenes_dir)
    /\ loc' = [video_files |-> VideoFiles, idx |-> 0]
    /\ pc' = "video"
    /\ UNCHANGED <<tool, args, lens, exitCode, log, heap, tableBuilds, warped, run, prev>>

(* lines 34-43: the video the loop is at and the layout of its scene *)
A_Video == loc.video_files[loc.idx + 1]
scene_path(video) == Join(args.scenes_dir, <<SplitExt(video)>>)
img_dir(video) == Join(scene_path(video), <<DImages>>)
sparse_dir(video) == Join(scene_path(video), <<DSparse>>)
database_path(video) == Join(scene_path(video), <<NDatabase>>)
sparse_0_dir(video) == Join(sparse_dir(video), <<DZero>>)

A_InLoop ==
    /\ tool = "autotracker" /\ pc = "video"
    /\ loc.idx < Len(loc.video_files)

(* process_video returns: main goes to the next video *)
A_Return == /\ loc' = [loc EXCEPT !.idx = @ + 1]
            /\ pc' = "video"

(* lines 46-48 *)
A_SkipExisting ==
    /\ A_InLoop
    /\ PathExists(fs, scene_path(A_Video))
    /\ log' = log \o <<Event("process_video", A_Video, run, TRUE),
                       Event("Skipping - already reconstructed", A_Video, run, TRUE)>>
    /\ A_Return
    /\ UNCHANGED <<tool, args, lens, fs, exitCode, heap, tableBuilds, warped, run, prev>>

(* glob.glob(os.path.join(img_dir, "*.jpg")) *)
GlobJpg(f, dir) == {q \in DOMAIN f.files : Parent(q) = dir /\ EndsWith(BaseName(q), ExtJpg)}

(* lines 50-96: the directories of the scene, ffmpeg, the test that     *)
(* frames were extracted                                                 *)
A_ExtractFrames ==
    /\ A_InLoop
    /\ ~PathExists(fs, scene_path(A_Video))
    /\ \E res \in run_command(NFfmpeg), frames \in BOOLEAN :
          LET fs1 == MkdirExistOk(MkdirExistOk(fs, img_dir(A_Video)), sparse_dir(A_Video))
              fs2 == IF res = "ok" /\ frames
                     THEN WriteFile(fs1, Join(img_dir(A_Video), <<NFrame1>>), Image("u8", 1))
                     ELSE fs1
          IN /\ res # "ok" => ~frames
             /\ fs' = fs2
             /\ log' = log \o <<Event("process_video", A_Video, run, TRUE),
                                Event("ffmpeg", A_Video, run, res = "ok")>>
             /\ IF res = "ok" /\ GlobJpg(fs2, img_dir(A_Video)) # {}
                THEN /\ pc' = "feature_extractor"
                     /\ loc' = loc
                ELSE A_Return
    /\ UNCHANGED <<tool, args, lens, exitCode, heap, tableBuilds, warped, run, prev>>

(* A_FeatureExtractor going on to the matcher whatever run_command returned *)
A_FeatureExtractor_NoGate ==
    /\ tool = "autotracker" /\ pc = "feature_extractor"
    /\ \E res \in run_command(NColmap) :
          /\ fs' = IF res = "ok" THEN WriteFile(fs, database_path(A_Video), Blob) ELSE fs
          /\ log' = Append(log, Event("feature_extractor", A_Video, run, res = "ok"))
          /\ pc' = "sequential_matcher" /\ loc' = loc
    /\ UNCHANGED <<tool, args, lens, exitCode, heap, tableBuilds, warped, run, prev>>

(* lines 98-116 *)
A_FeatureExtractor ==
    /\ tool = "autotracker" /\ pc = "feature_extractor"
    /\ \E res \in run_command(NColmap) :
          /\ fs' = IF res = "ok" THEN WriteFile(fs, database_path(A_Video), Blob) ELSE fs
          /\ log' = Append(log, Event("feature_extractor", A_Video, run, res = "ok"))
          /\ IF res = "ok" THEN pc' = "sequential_matcher" /\ loc' = loc ELSE A_Return
    /\ UNCHANGED <<tool, args, lens, exitCode, heap, tableBuilds, warped, run, prev>>

(* lines 118-126 *)
A_SequentialMatcher ==
    /\ tool = "autotracker" /\ pc = "sequential_matcher"
    /\ \E res \in run_command(NColmap) :
          /\ log' = Append(log, Event("sequential_matcher", A_Video, run, res = "ok"))
          /\ IF res = "ok" THEN pc' = "mapper" /\ loc' = loc ELSE A_Return
    /\ UNCHANGED <<tool, args, lens, fs, exitCode, heap, tableBuilds, warped, run, prev>>

(* lines 128-137: glomap writes a model in sparse/0, or finds none *)
A_Mapper ==
    /\ tool = "autotracker" /\ pc = "mapper"
    /\ \E res \in run_command(NGlomap), model \in BOOLEAN :
          /\ res # "ok" => ~model
          /\ fs' = IF model
                   THEN WriteFile(MkdirExistOk(fs, sparse_0_dir(A_Video)),
                                  Join(sparse_0_dir(A_Video), <<NCamerasBin>>), Blob)
                   ELSE fs
          /\ log' = Append(log, Event("mapper", A_Video, run, res = "ok"))
          /\ IF res = "ok" THEN pc' = "model_converter" /\ loc' = loc ELSE A_Return
    /\ UNCHANGED <<tool, args, lens, exitCode, heap, tableBuilds, warped, run, prev>>

(* lines 141-160: with a model in sparse/0 the two exports to TXT, whose *)
(* results are not looked at; "Finished"                                 *)
A_ModelConverter ==
    /\ tool = "autotracker" /\ pc = "model_converter"
    /\ IF PathExists(fs, sparse_0_dir(A_Video))
       THEN \E res1 \in run_command(NColmap), res2 \in run_command(NColmap) :
               LET fs1 == IF res1 = "ok"
                          THEN WriteFile(fs, Join(sparse_0_dir(A_Video), <<NCamerasTxt>>), Blob)
                          ELSE fs
                   fs2 == IF res2 = "ok"
                          THEN WriteFile(fs1, Join(sparse_dir(A_Video), <<NCamerasTxt>>), Blob)
                          ELSE fs1
               IN /\ fs' = fs2
                  /\ log' = log \o <<Event("model_converter", A_Video, run, res1 = "ok"),
                                     Event("model_converter", A_Video, run, res2 = "ok"),
                                     Event("Finished", A_Video, run, TRUE)>>
       ELSE /\ fs' = fs
            /\ log' = Append(log, Event("Finished", A_Video, run, TRUE))
    /\ A_Return
    /\ UNCHANGED <<tool, args, lens, exitCode, heap, tableBuilds, warped, run, prev>>

(* lines 226-228 and the normal end of the script *)
A_Finish ==
    /\ tool = "autotracker" /\ pc = "video"
    /\ loc.idx = Len(loc.video_files)
    /\ log' = Append(log, Event("All jobs finished", args.scenes_dir, run, TRUE))
    /\ pc' = "done"
    /\ exitCode' = 0
    /\ UNCHANGED <<tool, args, lens, fs, heap, loc, tableBuilds, warped, run, prev>>

(* the same command is run again on what the run before left *)
A_RunAgain ==
    /\ tool = "autotracker" /\ pc = "done"
    /\ run < MaxRuns
    /\ run' = run + 1
    /\ pc' = "start"
    /\ exitCode' = 0
    /\ loc' = [video_files |-> <<>>, idx |-> 0]
    /\ UNCHANGED <<tool, args, lens, fs, log, heap, tableBuilds, warped, prev>>

TrackerNext ==
    \/ A_NoVideosDir
    \/ A_NoVideos
    \/ A_Start
    \/ A_SkipExisting
    \/ A_ExtractFrames
    \/ A_FeatureExtractor
    \/ A_SequentialMatcher
    \/ A_Mapper
    \/ A_ModelConverter
    \/ A_Finish
    \/ A_RunAgain

SpecTracker == TrackerInit /\ [][TrackerNext]_vars

(* the stages of process_video, by the command each runs *)
Stages == <<"ffmpeg", "feature_extractor", "sequential_matcher", "mapper", "model_converter">>

StageIndex(t) == CHOOSE i \in 1..Len(Stages) : Stages[i] = t

IsStage(e) == \E i \in 1..Len(Stages) : Stages[i] = e.t

SameJob(e1, e2) == e1.p = e2.p /\ e1.n = e2.n

(* C15: in process_video a stage starts only after every earlier stage of
   the same video returned success, in the order ffmpeg, feature_extractor,
   sequential_matcher, mapper, model_converter, and with at least one
   extracted frame from feature_extractor on; after a stage that failed or
   whose binary is missing no later stage of the video runs; nothing is
   raised: the run ends with status 0 and main has called process_video for
   every video. *)
C15_StagesInOrderGated ==
    tool = "autotracker" =>
        /\ \A j \in 1..Len(log) : IsStage(log[j]) =>
              /\ \A k \in 1..(StageIndex(log[j].t) - 1) :
                    \E i \in 1..(j - 1) :
                        /\ SameJob(log[i], log[j]) /\ log[i].t = Stages[k] /\ log[i].ok
                        /\ \A i2 \in 1..(j - 1) :
                              (SameJob(log[i2], log[j]) /\ IsStage(log[i2])
                                 /\ StageIndex(log[i2].t) > k) => i < i2
              /\ StageIndex(log[j].t) > 1 => GlobJpg(fs, img_dir(log[j].p)) # {}
              /\ \A i \in 1..(j - 1) :
                    (SameJob(log[i], log[j]) /\ IsStage(log[i]) /\ ~log[i].ok) =>
                        (log[i].t = "model_converter" /\ log[j].t = "model_converter")
        /\ (pc = "done" /\ loc.video_files # <<>>) =>
              /\ exitCode = 0
              /\ \A v \in 1..Len(loc.video_files) :
                    \E j \in 1..Len(log) :
                        log[j] = Event("process_video", loc.video_files[v], run, TRUE)

(* a run where the first video fails at a stage and the second one goes
   through all the stages *)
C15_Witness ==
    /\ tool = "autotracker" /\ pc = "done" /\ run = 1
    /\ Len(loc.video_files) = 2
    /\ \E j \in 1..Len(log) :
          log[j] = Event("sequential_matcher", loc.video_files[1], 1, FALSE)
    /\ \E j \in 1..Len(log) :
          log[j] = Event("model_converter", loc.video_files[2], 1, TRUE)

(* the run r went through the four stages of the video with success *)
Reconstructed(video, r) ==
    \E i \in 1..Len(log) : log[i] = Event("mapper", video, r, TRUE)

(* C17 as stated: a video is skipped as already reconstructed only if an
   earlier run completed its reconstruction. *)
C17_SkipOnlyIfReconstructed ==
    tool = "autotracker" =>
        \A j \in 1..Len(log) :
            log[j].t = "Skipping - already reconstructed" =>
                \E r \in 1..(log[j].n - 1) : Reconstructed(log[j].p, r)

(* ------------------------------------------------------------------ *)
(* run_autotracker.py: main.  The steps run other programs; what a    *)
(* program does to the files is chosen among the outcomes it can have.*)
(* ------------------------------------------------------------------ *)
NHython == <<104, 121, 116, 104, 111, 110>>
NPly == <<112, 111, 105, 110, 116, 115, 51, 68, 46, 112, 108, 121>>
NColmap2Nerf == <<99, 111, 108, 109, 97, 112, 50, 110, 101, 114, 102, 46, 112, 121>>
SufTransforms == <<95, 116, 114, 97, 110, 115, 102, 111, 114, 109, 115, 46, 106, 115, 111, 110>>
DUndistort == <<117, 110, 100, 105, 115, 116, 111, 114, 116>>
ExtHip == <<46, 104, 105, 112>>
DShotA == <<115, 49>>
DShotB == <<115, 50>>
DScripts == <<115, 99, 114, 105, 112, 116, 115>>

(* subprocess.run(cmd, check=True) of a binary: it returns, or raises    *)
(* CalledProcessError, or raises FileNotFoundError                       *)
SubprocessRun(binary) ==
    IF IsFile(fs, <<DBin, binary>>) THEN {"ok", "failed"} ELSE {"not found"}

SceneFolders == {DShotA, DShotB}

(* the sub-directories of a directory, as os.listdir and os.path.isdir   *)
(* give them                                                             *)
SubFolders(f, dir) == SortedNames({x \in ListDir(f, dir) : IsDir(f, Join(dir, <<x>>))})

(* lines 61-63, 92, 114, 143-146: the paths of a folder of the output *)
P_Sparse0(folder) == <<DOut, folder, DSparse, DZero>>
P_Ply(folder) == <<DOut, folder, NPly>>
P_Json(folder) == <<DOut, folder \o SufTransforms>>
P_UndistortJson(folder) == <<DOut, folder, DUndistort, NOutJson>>
P_Hip(folder) == <<DOut, folder, folder \o ExtHip>>

(* what autotracker.py leaves for a folder: nothing, a scene without a   *)
(* model, a scene with a model in sparse/0                               *)
SceneStates == {"none", "scene", "model"}

RECURSIVE WithScenes(_, _, _)
WithScenes(f, folders, st) ==
    IF folders = {} THEN f
    ELSE LET x == CHOOSE y \in folders : TRUE
             f1 == IF st[x] = "none" THEN f
                   ELSE IF st[x] = "scene" THEN MkdirExistOk(f, <<DOut, x, DSparse>>)
                   ELSE WriteFile(MkdirExistOk(f, P_Sparse0(x)),
                                  Join(P_Sparse0(x), <<NCamerasBin>>), Blob)
         IN WithScenes(f1, folders \ {x}, st)

PipelineArgs == {[skip_houdini |-> sk] : sk \in BOOLEAN}

PipelineInit ==
    /\ tool = "run_autotracker"
    /\ args \in PipelineArgs
    /\ lens = "full"
    /\ \E bins \in SUBSET {NColmap, NHython}, script \in BOOLEAN, outThere \in BOOLEAN :
          fs = [dirs  |-> {<<>>, <<DBin>>, <<DScripts>>, <<DVideos>>}
                             \cup (IF outThere THEN {<<DOut>>} ELSE {}),
                files |-> [q \in {<<DBin, b>> : b \in bins}
                                  \cup (IF script THEN {<<DScripts, NColmap2Nerf>>} ELSE {})
                             |-> Blob],
                docs  |-> <<>>]
    /\ pc = "start"
    /\ exitCode = 0
    /\ log = <<>>
    /\ heap = EmptyHeap
    /\ loc = [subfolders |-> <<>>, idx |-> 0, generated_jsons |-> <<>>]
    /\ tableBuilds = 0
    /\ warped = 0
    /\ run = 1
    /\ prev = [valid |-> FALSE, fs |-> EmptyFs, exitCode |-> 0]

(* lines 26-54: the output directory; autotracker.py ends with a status  *)
(* other than 0                                                          *)
P_AutotrackerFails ==
    /\ tool = "run_autotracker" /\ pc = "start"
    /\ fs' = R_MakeOutputDir(fs, OutDir)
    /\ log' = Append(log, Event("autotracker", <<>>, run, FALSE))
    /\ pc' = "done"
    /\ exitCode' = 1
    /\ UNCHANGED <<tool, args, lens, heap, loc, tableBuilds, warped, run, prev>>

(* lines 26-58: the output directory, autotracker.py, the sub-folders *)
P_Autotracker ==
    /\ tool = "run_autotracker" /\ pc = "start"
    /\ \E st \in [SceneFolders -> SceneStates] :
          LET fs1 == WithScenes(R_MakeOutputDir(fs, OutDir), SceneFolders, st)
          IN /\ fs' = fs1
             /\ loc' = [loc EXCEPT !.subfolders = SubFolders(fs1, OutDir), !.idx = 0]
    /\ log' = Append(log, Event("autotracker", <<>>, run, TRUE))
    /\ pc' = "convert"
    /\ UNCHANGED <<tool, args, lens, exitCode, heap, tableBuilds, warped, run, prev>>

P_Folder == loc.subfolders[loc.idx + 1]

P_InLoop(at) ==
    /\ tool = "run_autotracker" /\ pc = at
    /\ loc.idx < Len(loc.subfolders)

(* P_ConvertFolder leaving the loop at the first conversion that fails *)
P_ConvertFolder_StopAtFailure ==
    /\ P_InLoop("convert")
    /\ IF PathExists(fs, P_Sparse0(P_Folder))
       THEN \E res \in SubprocessRun(NColmap) :
               /\ res # "not found"
               /\ fs' = IF res = "ok" THEN WriteFile(fs, P_Ply(P_Folder), Blob) ELSE fs
               /\ log' = Append(log, Event("model_converter", P_Folder, run, res = "ok"))
               /\ loc' = [loc EXCEPT !.idx = IF res = "ok" THEN @ + 1
                                            ELSE Len(loc.subfolders)]
       ELSE /\ fs' = fs /\ log' = log
            /\ loc' = [loc EXCEPT !.idx = @ + 1]
    /\ UNCHANGED <<tool, args, lens, pc, exitCode, heap, tableBuilds, warped, run, prev>>

(* lines 60-71 for one folder: with sparse/0 the export to PLY, whose    *)
(* failure is printed and passed over                                    *)
P_ConvertFolder ==
    /\ P_InLoop("convert")
    /\ IF PathExists(fs, P_Sparse0(P_Folder))
       THEN \E res \in SubprocessRun(NColmap) :
               /\ res # "not found"
               /\ fs' = IF res = "ok" THEN WriteFile(fs, P_Ply(P_Folder), Blob) ELSE fs
               /\ log' = Append(log, Event("model_converter", P_Folder, run, res = "ok"))
       ELSE fs' = fs /\ log' = log
    /\ loc' = [loc EXCEPT !.idx = @ + 1]
    /\ UNCHANGED <<tool, args, lens, pc, exitCode, heap, tableBuilds, warped, run, prev>>

(* lines 68-71: FileNotFoundError is not among the exceptions handled:   *)
(* without the colmap binary the script ends with a traceback            *)
P_ConvertNoBinary ==
    /\ P_InLoop("convert")
    /\ PathExists(fs, P_Sparse0(P_Folder))
    /\ "not found" \in SubprocessRun(NColmap)
    /\ log' = Append(log, Event("model_converter: FileNotFoundError", P_Folder, run, FALSE))
    /\ pc' = "done"
    /\ exitCode' = 1
    /\ UNCHANGED <<tool, args, lens, fs, heap, loc, tableBuilds, warped, run, prev>>

(* lines 74-81: colmap2nerf.py cannot be copied *)
P_CopyFails ==
    /\ tool = "run_autotracker" /\ pc = "convert"
    /\ loc.idx = Len(loc.subfolders)
    /\ ~IsFile(fs, <<DScripts, NColmap2Nerf>>)
    /\ log' = Append(log, Event("[ERROR] Failed to copy colmap2nerf.py", <<>>, run, FALSE))
    /\ pc' = "done"
    /\ exitCode' = 1
    /\ UNCHANGED <<tool, args, lens, fs, heap, loc, tableBuilds, warped, run, prev>>

(* lines 74-89: the copy, the change of directory, the sub-folders *)
P_Copy ==
    /\ tool = "run_autotracker" /\ pc = "convert"
    /\ loc.idx = Len(loc.subfolders)
    /\ IsFile(fs, <<DScripts, NColmap2Nerf>>)
    /\ LET fs1 == WriteFile(fs, <<DOut, NColmap2Nerf>>, Blob)
       IN /\ fs' = fs1
          /\ loc' = [subfolders |-> SubFolders(fs1, OutDir), idx |-> 0,
                     generated_jsons |-> <<>>]
    /\ pc' = "nerf"
    /\ UNCHANGED <<tool, args, lens, exitCode, log, heap, tableBuilds, warped, run, prev>>

(* lines 90-105 for one folder: colmap2nerf.py writes the document or    *)
(* not; its status is not looked at                                      *)
P_Colmap2Nerf ==
    /\ P_InLoop("nerf")
    /\ \E wrote \in BOOLEAN :
          LET fs1 == IF wrote THEN WriteFile(fs, P_Json(P_Folder), Blob) ELSE fs
          IN /\ fs' = fs1
             /\ log' = Append(log, Event("colmap2nerf", P_Folder, run, wrote))
             /\ loc' = [loc EXCEPT !.idx = @ + 1,
                                   !.generated_jsons =
                                       IF PathExists(fs1, P_Json(P_Folder))
                                       THEN Append(@, P_Folder) ELSE @]
    /\ UNCHANGED <<tool, args, lens, pc, exitCode, heap, tableBuilds, warped, run, prev>>

(* lines 107-111 *)
P_ChdirBack ==
    /\ tool = "run_autotracker" /\ pc = "nerf"
    /\ loc.idx = Len(loc.subfolders)
    /\ loc' = [loc EXCEPT !.idx = 0]
    /\ pc' = "undistort"
    /\ UNCHANGED <<tool, args, lens, fs, exitCode, log, heap, tableBuilds, warped, run, prev>>

(* lines 113-125 for one generated document: the undistortion script,    *)
(* whose failure is printed and passed over                              *)
P_Undistort ==
    /\ tool = "run_autotracker" /\ pc = "undistort"
    /\ loc.idx < Len(loc.generated_jsons)
    /\ LET folder == loc.generated_jsons[loc.idx + 1]
       IN \E res \in {"ok", "failed"} :
             /\ fs' = IF res = "ok"
                      THEN WriteFile(MkdirExistOk(fs, Parent(P_UndistortJson(folder))),
                                     P_UndistortJson(folder), Blob)
                      ELSE fs
             /\ log' = Append(log, Event("undistort", folder, run, res = "ok"))
    /\ loc' = [loc EXCEPT !.idx = @ + 1]
    /\ UNCHANGED <<tool, args, lens, pc, exitCode, heap, tableBuilds, warped, run, prev>>

(* lines 128, 157-158 *)
P_SkipHoudini ==
    /\ tool = "run_autotracker" /\ pc = "undistort"
    /\ loc.idx = Len(loc.generated_jsons)
    /\ args.skip_houdini
    /\ log' = Append(log, Event("Skipping Houdini scene generation", <<>>, run, TRUE))
    /\ pc' = "done"
    /\ exitCode' = 0
    /\ UNCHANGED <<tool, args, lens, fs, heap, loc, tableBuilds, warped, run, prev>>

(* lines 128-140 *)
P_ScanHoudini ==
    /\ tool = "run_autotracker" /\ pc = "undistort"
    /\ loc.idx = Len(loc.generated_jsons)
    /\ ~args.skip_houdini
    /\ loc' = [loc EXCEPT !.subfolders = SubFolders(fs, OutDir), !.idx = 0]
    /\ pc' = "houdini"
    /\ UNCHANGED <<tool, args, lens, fs, exitCode, log, heap, tableBuilds, warped, run, prev>>

(* lines 141-156 for one folder: with the point cloud and the            *)
(* undistorted document, hython; every failure is printed and passed over*)
P_Houdini ==
    /\ P_InLoop("houdini")
    /\ IF PathExists(fs, P_Ply(P_Folder)) /\ PathExists(fs, P_UndistortJson(P_Folder))
       THEN \E res \in SubprocessRun(NHython) :
               /\ fs' = IF res = "ok" THEN WriteFile(fs, P_Hip(P_Folder), Blob) ELSE fs
               /\ log' = Append(log, Event("houdini", P_Folder, run, res = "ok"))
       ELSE fs' = fs /\ log' = log
    /\ loc' = [loc EXCEPT !.idx = @ + 1]
    /\ UNCHANGED <<tool, args, lens, pc, exitCode, heap, tableBuilds, warped, run, prev>>

(* the normal end of the script *)
P_Finish ==
    /\ tool = "run_autotracker" /\ pc = "houdini"
    /\ loc.idx = Len(loc.subfolders)
    /\ pc' = "done"
    /\ exitCode' = 0
    /\ UNCHANGED <<tool, args, lens, fs, log, heap, loc, tableBuilds, warped, run, prev>>

PipelineNext ==
    \/ P_AutotrackerFails
    \/ P_Autotracker
    \/ P_ConvertFolder
    \/ P_ConvertNoBinary
    \/ P_CopyFails
    \/ P_Copy
    \/ P_Colmap2Nerf
    \/ P_ChdirBack
    \/ P_Undistort
    \/ P_SkipHoudini
    \/ P_ScanHoudini
    \/ P_Houdini
    \/ P_Finish

SpecPipeline == PipelineInit /\ [][PipelineNext]_vars

Ran(step, folder) == \E j \in 1..Len(log) : log[j].t = step /\ log[j].p = folder

(* C16: if autotracker fails, main exits with status 1 and no later step
   runs; otherwise the undistortion runs only for folders whose
   <folder>_transforms.json exists after colmap2nerf, the Houdini build only
   without --skip-houdini and with the folder's points3D.ply and
   undistort/transforms_undistorted.json; and a step of one folder that
   fails does not keep the step from the other folders: a run that ends
   with status 0 has converted every folder with sparse/0, undistorted every
   folder with a document and built every folder that has both files, and
   the only ends with another status are the failure of autotracker, of the
   copy of colmap2nerf.py and a conversion without the colmap binary. *)
C16_StepsGatedFailuresLocal ==
    tool = "run_autotracker" =>
        /\ (\E j \in 1..Len(log) : log[j].t = "autotracker" /\ ~log[j].ok) =>
              (pc = "done" /\ exitCode = 1 /\ Len(log) = 1)
        /\ \A j \in 1..Len(log) :
              /\ log[j].t = "undistort" =>
                    /\ PathExists(fs, P_Json(log[j].p))
                    /\ \E i \in 1..(j - 1) : log[i].t = "colmap2nerf" /\ log[i].p = log[j].p
              /\ log[j].t = "houdini" =>
                    /\ ~args.skip_houdini
                    /\ PathExists(fs, P_Ply(log[j].p))
                    /\ PathExists(fs, P_UndistortJson(log[j].p))
        /\ (pc = "done" /\ exitCode = 0) =>
              \A k \in 1..Len(SubFolders(fs, OutDir)) :
                  LET f == SubFolders(fs, OutDir)[k]
                  IN /\ PathExists(fs, P_Sparse0(f)) => Ran("model_converter", f)
                     /\ Ran("colmap2nerf", f)
                     /\ PathExists(fs, P_Json(f)) => Ran("undistort", f)
                     /\ (~args.skip_houdini /\ PathExists(fs, P_Ply(f))
                           /\ PathExists(fs, P_UndistortJson(f))) => Ran("houdini", f)
        /\ (pc = "done" /\ exitCode # 0) =>
              log[Len(log)].t \in {"autotracker", "[ERROR] Failed to copy colmap2nerf.py",
                                   "model_converter: FileNotFoundError"}

(* a run that ends with status 0 although the conversion, the
   undistortion and the Houdini build of the first folder failed, with the
   three steps done for the second folder *)
C16_Witness ==
    /\ tool = "run_autotracker" /\ pc = "done" /\ exitCode = 0
    /\ \E i, j \in 1..Len(log) :
          /\ i < j
          /\ log[i] = Event("model_converter", DShotA, 1, FALSE)
          /\ log[j] = Event("model_converter", DShotB, 1, TRUE)
    /\ \E i, j \in 1..Len(log) :
          /\ i < j
          /\ log[i] = Event("undistort", DShotA, 1, FALSE)
          /\ log[j] = Event("undistort", DShotB, 1, TRUE)
    /\ Ran("houdini", DShotB)
    /\ ~Ran("houdini", DShotA)

(* ------------------------------------------------------------------ *)
(* batch_run.py: run_autotracker.py is launched once for every        *)
(* directory under the target whose name does not start with a dot.   *)
(* The configuration file is a document whose sections are functions  *)
(* from keys to values; a command is the two paths and the sequence   *)
(* of the options added to it.                                        *)
(* ------------------------------------------------------------------ *)
SufOutput       == <<45, 111, 117, 116, 112, 117, 116>>
NConfig         == <<98, 97, 116, 99, 104, 95, 99, 111, 110, 102, 105, 103, 46, 105, 110, 105>>
DTarget         == <<116, 97, 114, 103, 101, 116>>
DHidden         == <<46, 103, 105, 116>>
NRunAutotracker == <<114, 117, 110, 95, 97, 117, 116, 111, 116, 114, 97, 99, 107, 101, 114, 46, 112, 121>>

(* batch_run.py lines 55-60 *)
add_arg(section, ini_key, cli_flag) ==
    IF ini_key \in DOMAIN section /\ section[ini_key] # ""
    THEN <<[flag |-> cli_flag, has |-> TRUE, val |-> section[ini_key]]>>
    ELSE <<>>

(* batch_run.py lines 62-65: getboolean with fallback=False *)
add_bool(section, ini_key, cli_flag) ==
    IF ini_key \in DOMAIN section /\ section[ini_key] \in {"1", "yes", "true", "on"}
    THEN <<[flag |-> cli_flag, has |-> FALSE, val |-> ""]>>
    ELSE <<>>

(* batch_run.py lines 68-79 *)
ForwardedOptions(section) ==
    add_arg(section, "scale", "--scale")
    \o add_arg(section, "overlap", "--overlap")
    \o add_arg(section, "mapper", "--mapper")
    \o add_arg(section, "camera_model", "--camera_model")
    \o add_arg(section, "mask", "--mask")
    \o add_arg(section, "lut", "--lut")
    \o add_arg(section, "hfs", "--hfs")
    \o add_bool(section, "multi_cams", "--multi-cams")
    \o add_bool(section, "acescg", "--acescg")
    \o add_bool(section, "skip_houdini", "--skip-houdini")

(* batch_run.py lines 40-81: the command of a folder *)
Command(folder, config) ==
    [input   |-> <<DTarget, folder>>,
     output  |-> <<DTarget, folder \o SufOutput>>,
     options |-> IF folder \in DOMAIN config THEN ForwardedOptions(config[folder])
                 ELSE <<>>]

(* run_autotracker.py lines 11-17: the options of its parser; has: the
   option takes a value *)
ParserOptions ==
    {[flag |-> "--scale", has |-> TRUE],
     [flag |-> "--skip-houdini", has |-> FALSE],
     [flag |-> "--hfs", has |-> TRUE],
     [flag |-> "--multi-cams", has |-> FALSE],
     [flag |-> "--acescg", has |-> FALSE],
     [flag |-> "--lut", has |-> TRUE],
     [flag |-> "--mask", has |-> TRUE]}

(* run_autotracker.py line 19: parse_args accepts the command when every
   option on it is one of the parser's; otherwise it ends with status 2 *)
ParseArgs(cmd) ==
    \A i \in 1..Len(cmd.options) :
        \E o \in ParserOptions :
            o.flag = cmd.options[i].flag /\ o.has = cmd.options[i].has

ArgKeys  == {"scale", "overlap", "mapper", "camera_model", "mask", "lut", "hfs"}
BoolKeys == {"multi_cams", "acescg", "skip_houdini"}

(* the sections tried for a folder: empty, one key, or every key *)
SectionChoices ==
    {[k \in {} |-> ""]}
    \cup {[k \in {a} |-> v] : a \in ArgKeys, v \in {"", "2"}}
    \cup {[k \in {b} |-> v] : b \in BoolKeys, v \in {"true", "false"}}
    \cup {[k \in ArgKeys \cup BoolKeys |-> IF k \in ArgKeys THEN "2" ELSE "true"]}

(* the content of batch_config.ini: no file, or a file with no section
   or with a section for the first folder *)
NoConfig == [there |-> FALSE, sections |-> <<>>]
ConfigChoices ==
    {NoConfig, [there |-> TRUE, sections |-> <<>>]}
    \cup {[there |-> TRUE, sections |-> [f \in {DShotA} |-> sec]] : sec \in SectionChoices}

ConfigPath == <<DTarget, NConfig>>

BatchFs(there, folders, cfg) ==
    [dirs  |-> {<<>>, <<DScripts>>}
               \cup (IF there THEN {<<DTarget>>, <<DTarget, DHidden>>}
                                   \cup {<<DTarget, f>> : f \in folders}
                     ELSE {}),
     files |-> [q \in {<<DScripts, NRunAutotracker>>} |-> Blob],
     docs  |-> IF cfg.there THEN [q \in {ConfigPath} |-> [sections |-> cfg.sections]]
               ELSE <<>>]

BatchInit ==
    /\ tool = "batch_run"
    /\ args = [target_path |-> <<DTarget>>]
    /\ \E there \in BOOLEAN, folders \in SUBSET SceneFolders, cfg \in ConfigChoices,
          cwd \in {<<DScripts>>, <<>>} :
          /\ ~there => (folders = {} /\ cfg = NoConfig)
          /\ fs = BatchFs(there, folders, cfg)
          /\ loc = [items |-> <<>>, idx |-> 0, config |-> <<>>, cwd |-> cwd]
    /\ pc = "start"
    /\ exitCode = 0
    /\ log = <<>>
    /\ lens = "full"
    /\ heap = EmptyHeap
    /\ tableBuilds = 0
    /\ warped = 0
    /\ run = 1
    /\ prev = [valid |-> FALSE, fs |-> EmptyFs, exitCode |-> 0]

(* lines 14-16 *)
B_NoTarget ==
    /\ tool = "batch_run" /\ pc = "start"
    /\ ~PathExists(fs, args.target_path)
    /\ log' = Append(log, Event("Error: Path does not exist", args.target_path, run, FALSE))
    /\ pc' = "done"
    /\ exitCode' = 0
    /\ UNCHANGED <<tool, args, lens, fs, heap, loc, tableBuilds, warped, run, prev>>

(* lines 18-28: the configuration is read, the target is listed once *)
B_Start ==
    /\ tool = "batch_run" /\ pc = "start"
    /\ PathExists(fs, args.target_path)
    /\ loc' = [loc EXCEPT
                 !.config = IF PathExists(fs, ConfigPath) THEN fs.docs[ConfigPath].sections
                            ELSE <<>>,
                 !.items = SortedNames(ListDir(fs, args.target_path)),
                 !.idx = 0]
    /\ pc' = "loop"
    /\ UNCHANGED <<tool, args, lens, fs, exitCode, log, heap, tableBuilds, warped, run, prev>>

B_Item == loc.items[loc.idx + 1]

B_InLoop ==
    /\ tool = "batch_run" /\ pc = "loop"
    /\ loc.idx < Len(loc.items)

(* line 32: item.startswith('.') *)
B_Hidden(item) == item[1] = 46

(* lines 30-37: a hidden entry or an entry that is not a directory *)
B_SkipItem ==
    /\ B_InLoop
    /\ B_Hidden(B_Item) \/ ~IsDir(fs, Join(args.target_path, <<B_Item>>))
    /\ loc' = [loc EXCEPT !.idx = @ + 1]
    /\ UNCHANGED <<tool, args, lens, fs, pc, exitCode, log, heap, tableBuilds, warped, run, prev>>

B_IsFolder ==
    /\ B_InLoop
    /\ ~B_Hidden(B_Item)
    /\ IsDir(fs, Join(args.target_path, <<B_Item>>))

(* line 48: the script is named relative to the working directory *)
B_ScriptThere == IsFile(fs, Join(loc.cwd, <<NRunAutotracker>>))

(* lines 38-88 when the interpreter does not find run_autotracker.py: it
   ends with a non-zero status, which is caught and printed *)
B_ScriptNotFound ==
    /\ B_IsFolder
    /\ ~B_ScriptThere
    /\ log' = Append(log, Event("[ERROR] processing", B_Item, run, FALSE))
    /\ loc' = [loc EXCEPT !.idx = @ + 1]
    /\ UNCHANGED <<tool, args, lens, fs, pc, exitCode, heap, tableBuilds, warped, run, prev>>

(* lines 38-88 when run_autotracker.py rejects the command at
   parse_args (run_autotracker.py line 19): status 2, nothing is created;
   the CalledProcessError is caught and printed *)
B_ArgsRejected ==
    /\ B_IsFolder
    /\ B_ScriptThere
    /\ ~ParseArgs(Command(B_Item, loc.config))
    /\ log' = log \o <<Event("run_autotracker", B_Item, run, FALSE),
                       Event("[ERROR] processing", B_Item, run, FALSE)>>
    /\ loc' = [loc EXCEPT !.idx = @ + 1]
    /\ UNCHANGED <<tool, args, lens, fs, pc, exitCode, heap, tableBuilds, warped, run, prev>>

(* lines 38-88 when run_autotracker.py accepts the command: it creates
   its output directory (run_autotracker.py lines 26-28) and goes on to
   its autotracker step; a non-zero end of it is caught and printed *)
B_RunFolder ==
    /\ B_IsFolder
    /\ B_ScriptThere
    /\ LET cmd == Command(B_Item, loc.config)
       IN /\ ParseArgs(cmd)
          /\ fs' = MkdirExistOk(fs, cmd.output)
    /\ \E r \in {"ok", "failed"} :
          log' = log \o <<Event("run_autotracker", B_Item, run, TRUE)>>
                     \o (IF r = "failed"
                         THEN <<Event("[ERROR] processing", B_Item, run, FALSE)>>
                         ELSE <<>>)
    /\ loc' = [loc EXCEPT !.idx = @ + 1]
    /\ UNCHANGED <<tool, args, lens, pc, exitCode, heap, tableBuilds, warped, run, prev>>

(* lines 30, 91-92: the list is exhausted *)
B_Finish ==
    /\ tool = "batch_run" /\ pc = "loop"
    /\ loc.idx = Len(loc.items)
    /\ pc' = "done"
    /\ exitCode' = 0
    /\ UNCHANGED <<tool, args, lens, fs, log, heap, loc, tableBuilds, warped, run, prev>>

(* batch_run.py is started again on the same target; prev keeps the file
   system the run started from *)
B_RunAgain ==
    /\ tool = "batch_run" /\ pc = "done"
    /\ PathExists(fs, args.target_path)
    /\ run < MaxRuns
    /\ run' = run + 1
    /\ prev' = [valid |-> TRUE, fs |-> fs, exitCode |-> exitCode]
    /\ pc' = "start"
    /\ exitCode' = 0
    /\ loc' = [loc EXCEPT !.items = <<>>, !.idx = 0, !.config = <<>>]
    /\ UNCHANGED <<tool, args, lens, fs, log, heap, tableBuilds, warped>>

BatchNext ==
    \/ B_NoTarget
    \/ B_Start
    \/ B_SkipItem
    \/ B_ScriptNotFound
    \/ B_ArgsRejected
    \/ B_RunFolder
    \/ B_Finish
    \/ B_RunAgain

SpecBatch == BatchInit /\ [][BatchNext]_vars

(* C19 as stated: over any sequence of batch_run runs on one target,
   run_autotracker is invoked only on the original input sub-directories,
   never on a "<folder>-output" directory, and a later run that ends
   leaves the same directories under the target as it found. *)
C19_OnlyOriginalFolders ==
    /\ \A j \in 1..Len(log) :
          log[j].t = "run_autotracker" =>
              log[j].p \in SceneFolders /\ ~EndsWith(log[j].p, SufOutput)
    /\ (tool = "batch_run" /\ pc = "done" /\ prev.valid) =>
          SubFolders(fs, args.target_path) = SubFolders(prev.fs, args.target_path)

(* C20 as stated: every launched run_autotracker gets past its argument
   parsing and reaches its autotracker step, whatever the section of the
   folder holds. *)
C20_ForwardedOptionsAccepted ==
    \A j \in 1..Len(log) : log[j].t = "run_autotracker" => log[j].ok

====
